---------------------------- MODULE Spec2Model ----------------------------
(***************************************************************************)
(* Connect6 engine (QGdan/connect6-ai): board and rules, road table, VCDT  *)
(* threat detector, RZOP candidate generator, static evaluator and the     *)
(* root of the PVS search, modelled from the TypeScript sources.           *)
(*                                                                         *)
(* The source plays on a 19x19 board (BOARD_SIZE, game_state.ts:3).  The   *)
(* code is written against BOARD_SIZE throughout, and the model keeps the  *)
(* same code with a smaller side so that TLC can enumerate positions; the  *)
(* length of a winning line (6) is the source's.                           *)
(***************************************************************************)
EXTENDS Integers, Sequences, FiniteSets, TLC

VARIABLES
    state,      \* the GameState the caller holds (rules) / the root state (search)
    call,       \* the last applyMoveWithWinner call: argument, move, outcome
    applied,    \* number of successful applyMoveWithWinner calls since createInitialState
    checked,    \* the last checkWinner call on a drawn board: [done, result]
    search,     \* the pvsSearchBestMove call in progress: position in the code, locals
    fn,         \* the last call of a function on the drawn state: name, arguments, result
    hybrid,     \* the HybridStrategyManager.decideMove call in progress
    transpositionTable,   \* pvs_search.ts: the table of the search, key -> entry
    mcts        \* mcts_ai_engine.ts: selfTable, oppTable, visitClock, the call in progress

\* the variables of the engines beside the search
engineVars == <<hybrid, transpositionTable, mcts>>

vars == <<state, call, applied, checked, search, fn, engineVars>>

-----------------------------------------------------------------------------
(* Bounds of the model *)

BOARD_SIZE == 6      \* side of the board; 19 in the source
MaxPly == 7          \* plies played in the rules specification
MaxDepth == 2        \* largest config.maxDepth a search is started with
MAX_TT_ENTRIES == 3  \* cap of the transposition table; 1,000,000 in the source

-----------------------------------------------------------------------------
(* types.ts / game_state.ts *)

ROAD_LEN == 6

Players == {"BLACK", "WHITE"}
NoWinner == "NONE"

Coords == 0 .. (BOARD_SIZE - 1)

Pos(x, y) == [x |-> x, y |-> y]

AllCells == {Pos(x, y) : x \in Coords, y \in Coords}

NoMove == [player |-> "NONE", positions |-> <<>>]

isInsideBoard(pos) ==
    pos.x >= 0 /\ pos.x < BOARD_SIZE /\ pos.y >= 0 /\ pos.y < BOARD_SIZE

createEmptyBoard == [y \in Coords |-> [x \in Coords |-> 0]]

createInitialState ==
    [board |-> createEmptyBoard,
     currentPlayer |-> "BLACK",
     moveNumber |-> 0,
     lastMove |-> NoMove,
     winner |-> NoWinner]

\* cloneState with the board shared instead of copied ({...state} alone)
cloneStateShallow(s) ==
    [st |-> [board |-> s.board,
             currentPlayer |-> s.currentPlayer,
             moveNumber |-> s.moveNumber,
             lastMove |-> s.lastMove,
             winner |-> s.winner],
     sharesBoard |-> TRUE]

\* The clone is a new object with a new board (every row copied), so a later
\* write to the clone's board is not seen through the original.
cloneState(s) ==
    [st |-> [board |-> [y \in Coords |-> [x \in Coords |-> s.board[y][x]]],
             currentPlayer |-> s.currentPlayer,
             moveNumber |-> s.moveNumber,
             lastMove |-> s.lastMove,
             winner |-> s.winner],
     sharesBoard |-> FALSE]

switchPlayer(p) == IF p = "BLACK" THEN "WHITE" ELSE "BLACK"

CellValue(p) == IF p = "BLACK" THEN 1 ELSE 2

-----------------------------------------------------------------------------
(* rules.ts *)

DIRS == << [dx |-> 1, dy |-> 0], [dx |-> 0, dy |-> 1],
           [dx |-> 1, dy |-> 1], [dx |-> 1, dy |-> -1] >>

getStonesToPlace(moveNumber, player) == IF moveNumber = 0 THEN 1 ELSE 2

\* the while loop of checkWinner: cells of colour `cell` from (x, y) on, in
\* direction (dx, dy)
RECURSIVE RunLength(_, _, _, _, _, _)
RunLength(board, cell, x, y, dx, dy) ==
    IF x >= 0 /\ x < BOARD_SIZE /\ y >= 0 /\ y < BOARD_SIZE /\ board[y][x] = cell
    THEN 1 + RunLength(board, cell, x + dx, y + dy, dx, dy)
    ELSE 0

\* a non-empty cell from which some direction counts at least `need` stones
RunStartsAt(board, x, y, need) ==
    /\ board[y][x] # 0
    /\ \E i \in 1 .. Len(DIRS) :
          1 + RunLength(board, board[y][x], x + DIRS[i].dx, y + DIRS[i].dy,
                        DIRS[i].dx, DIRS[i].dy) >= need

\* the scan of checkWinner: rows top to bottom, cells left to right; the first
\* cell that starts a run decides the colour returned
ScanForRun(s, need) ==
    LET board == s.board
        hits == {k \in 0 .. (BOARD_SIZE * BOARD_SIZE - 1) :
                    RunStartsAt(board, k % BOARD_SIZE, k \div BOARD_SIZE, need)}
        first == CHOOSE k \in hits : \A j \in hits : k <= j
        hasEmpty == \E y \in Coords : \E x \in Coords : board[y][x] = 0
    IN  IF hits # {}
        THEN (IF board[first \div BOARD_SIZE][first % BOARD_SIZE] = 1
              THEN "BLACK" ELSE "WHITE")
        ELSE IF ~hasEmpty THEN "DRAW" ELSE NoWinner

\* checkWinner with the run test off by one (count >= 5)
checkWinnerFive(s) == ScanForRun(s, 5)

checkWinner(s) == ScanForRun(s, 6)

\* step 3 of applyMoveWithWinner: the first position that is out of the board
\* or occupied decides the error; 0 when every position passes
RECURSIVE FirstBadPosition(_, _, _)
FirstBadPosition(board, positions, i) ==
    IF i > Len(positions) THEN 0
    ELSE IF ~isInsideBoard(positions[i]) THEN i
    ELSE IF board[positions[i].y][positions[i].x] # 0 THEN i
    ELSE FirstBadPosition(board, positions, i + 1)

\* step 4: the stones are written one after the other
RECURSIVE PlaceStones(_, _, _, _)
PlaceStones(board, positions, i, value) ==
    IF i > Len(positions) THEN board
    ELSE PlaceStones([board EXCEPT ![positions[i].y][positions[i].x] = value],
                     positions, i + 1, value)

NullState ==
    [board |-> createEmptyBoard, currentPlayer |-> "NONE", moveNumber |-> -1,
     lastMove |-> NoMove, winner |-> NoWinner]

Thrown(s, kind) ==
    [threw |-> TRUE, error |-> kind, next |-> NullState, argAfter |-> s]

\* The result of a call: either an exception (threw, error) or the successor
\* (next); argAfter is the argument object as the caller sees it after the call.
applyMoveWithWinner(s, move) ==
    LET cl == cloneState(s)
        required == getStonesToPlace(s.moveNumber, move.player)
        bad == FirstBadPosition(cl.st.board, move.positions, 1)
        value == CellValue(move.player)
        placed == PlaceStones(cl.st.board, move.positions, 1, value)
        moved == [cl.st EXCEPT !.board = placed,
                               !.lastMove = move,
                               !.currentPlayer = switchPlayer(move.player),
                               !.moveNumber = @ + 1]
        w == checkWinner(moved)
        next == IF w # NoWinner THEN [moved EXCEPT !.winner = w] ELSE moved
    IN  IF move.player # s.currentPlayer THEN Thrown(s, "WrongPlayer")
        ELSE IF Len(move.positions) # required THEN Thrown(s, "WrongCount")
        ELSE IF bad # 0 /\ ~isInsideBoard(move.positions[bad])
             THEN Thrown(s, "OutOfBounds")
        ELSE IF bad # 0 THEN Thrown(s, "Occupied")
        ELSE [threw |-> FALSE, error |-> "",
              next |-> next,
              argAfter |-> IF cl.sharesBoard THEN [s EXCEPT !.board = placed] ELSE s]


-----------------------------------------------------------------------------
(* The rules specification: a game played from createInitialState through  *)
(* applyMoveWithWinner, the caller keeping the successor of every call     *)
(* that returns (state = applyMoveWithWinner(state, move)).  Moves of both *)
(* colours are offered in every state, legal or not.                       *)

OutOfBoard == Pos(BOARD_SIZE, 0)

LaneRow(p) == IF p = "WHITE" THEN 0 ELSE 2

\* the x of the first k empty cells of row y, left to right
RECURSIVE FirstFree(_, _, _, _)
FirstFree(board, y, x, k) ==
    IF k = 0 \/ x >= ROAD_LEN THEN <<>>
    ELSE IF board[y][x] = 0
         THEN <<Pos(x, y)>> \o FirstFree(board, y, x + 1, k - 1)
         ELSE FirstFree(board, y, x + 1, k)

\* the positions a move of player p is drawn from: the first two free cells of
\* p's lane, the first cell of the lane (occupied once played) and a position
\* off the board
Offer(s, p) ==
    FirstFree(s.board, LaneRow(p), 0, 2) \o << Pos(0, LaneRow(p)), OutOfBoard >>

MoveInputs(s) ==
    UNION { LET o == Offer(s, p)
            IN  {[player |-> p, positions |-> <<o[i]>>] : i \in 1 .. Len(o)}
                \cup {[player |-> p, positions |-> <<o[ij[1]], o[ij[2]]>>] :
                         ij \in {q \in (1 .. Len(o)) \X (1 .. Len(o)) : q[1] <= q[2]}}
          : p \in Players }

NoCall ==
    [kind |-> "none", arg |-> NullState, move |-> NoMove, threw |-> FALSE,
     error |-> "", argAfter |-> NullState]

NoCheck == [done |-> FALSE, result |-> NoWinner]

NoFn == [name |-> "none"]

NoHybrid == [pc |-> "none"]

NoTable == << >>

NoMcts == [pc |-> "none"]

InitRules ==
    /\ state = createInitialState
    /\ call = NoCall
    /\ applied = 0
    /\ checked = NoCheck
    /\ search = [pc |-> "none"]
    /\ fn = NoFn
    /\ hybrid = NoHybrid
    /\ transpositionTable = NoTable
    /\ mcts = NoMcts

Play ==
    /\ state.moveNumber < MaxPly
    /\ \E m \in MoveInputs(state) :
          LET r == applyMoveWithWinner(state, m)
          IN  /\ call' = [kind |-> "apply", arg |-> state, move |-> m,
                          threw |-> r.threw, error |-> r.error,
                          argAfter |-> r.argAfter]
              /\ state' = IF r.threw THEN state ELSE r.next
              /\ applied' = IF r.threw THEN applied ELSE applied + 1
    /\ UNCHANGED <<checked, search, fn, engineVars>>

NextRules == Play

SpecRules == InitRules /\ [][NextRules]_vars

-----------------------------------------------------------------------------
(* The winner specification: checkWinner applied to boards drawn from a    *)
(* family of lines laid over an empty or a full background.                *)

\* a full board without six in a row in any direction
FillerBoard ==
    [y \in Coords |-> [x \in Coords |-> IF (x + 2 * y) % 4 < 2 THEN 1 ELSE 2]]

LineCell(start, dir, k) == Pos(start.x + k * dir.dx, start.y + k * dir.dy)

\* `bg` with the six cells of the line from `start` in direction `dir` set to
\* colour v, except the cell of index gap (gap = ROAD_LEN: no gap)
LayLine(bg, start, dir, v, gap) ==
    [y \in Coords |-> [x \in Coords |->
        IF \E k \in 0 .. (ROAD_LEN - 1) : k # gap /\ LineCell(start, dir, k) = Pos(x, y)
        THEN v ELSE bg[y][x]]]

TestLines ==
    { [start |-> Pos(0, 1), dir |-> DIRS[1]],
      [start |-> Pos(0, 0), dir |-> DIRS[2]],
      [start |-> Pos(0, 0), dir |-> DIRS[3]],
      [start |-> Pos(0, ROAD_LEN - 1), dir |-> DIRS[4]] }

TestBoards ==
    { LayLine(under, l.start, l.dir, v, gap) :
        l \in TestLines, v \in {1, 2}, gap \in 0 .. ROAD_LEN,
        under \in { createEmptyBoard, FillerBoard }
                  \cup { LayLine(bg, Pos(0, 3), DIRS[1], w, ROAD_LEN) :
                            bg \in {createEmptyBoard, FillerBoard}, w \in {1, 2} } }

InitWinner ==
    /\ \E b \in TestBoards : state = [createInitialState EXCEPT !.board = b]
    /\ call = NoCall
    /\ applied = 0
    /\ checked = NoCheck
    /\ search = [pc |-> "none"]
    /\ fn = NoFn
    /\ hybrid = NoHybrid
    /\ transpositionTable = NoTable
    /\ mcts = NoMcts

CheckBoard ==
    /\ ~checked.done
    /\ checked' = [done |-> TRUE, result |-> checkWinner(state)]
    /\ UNCHANGED <<state, call, applied, search, fn, engineVars>>

NextWinner == CheckBoard

SpecWinner == InitWinner /\ [][NextWinner]_vars

-----------------------------------------------------------------------------
(* Arrays of the source as sequences *)

\* a const of the source: the value v, computed once, under the name F gives it
With(v, F(_)) == CHOOSE r \in {F(x) : x \in {v}} : TRUE

InSeq(e, s) == \E i \in 1 .. Len(s) : s[i] = e

RECURSIVE FlattenFrom(_, _)
FlattenFrom(ss, i) == IF i > Len(ss) THEN <<>> ELSE ss[i] \o FlattenFrom(ss, i + 1)

Flatten(ss) == With(ss, LAMBDA v : FlattenFrom(v, 1))

\* push-if-not-seen over an array: the first occurrence of every element, in order
Dedupe(s) ==
    LET firsts(v) ==
            LET isFirst(i) == \A j \in 1 .. (i - 1) : v[j] # v[i]
                idx == SelectSeq([i \in 1 .. Len(v) |-> i], isFirst)
            IN  [k \in 1 .. Len(idx) |-> v[idx[k]]]
    IN  CHOOSE r \in {firsts(v) : v \in {s}} : TRUE

\* the same for pairs of positions under an unordered key
RECURSIVE DedupePairsFrom(_, _, _)
DedupePairsFrom(s, i, acc) ==
    IF i > Len(s) THEN acc
    ELSE With(IF InSeq(s[i], acc) \/ InSeq(<<s[i][2], s[i][1]>>, acc)
              THEN acc ELSE Append(acc, s[i]),
              LAMBDA next : DedupePairsFrom(s, i + 1, next))

DedupePairs(s) == With(s, LAMBDA v : DedupePairsFrom(v, 1, <<>>))

\* Array.prototype.sort with a comparator a.key - b.key (ascending, stable):
\* keys[i] is the key of s[i].  The array and the keys are values before the
\* ranks are computed.
StableSortBy(s, keys) ==
    LET ranks(ks) ==
            [i \in 1 .. Len(ks) |->
                Cardinality({j \in 1 .. Len(ks) :
                    ks[j] < ks[i] \/ (ks[j] = ks[i] /\ j < i)})]
        sorted(v, rk) == [p \in 1 .. Len(v) |-> v[CHOOSE i \in 1 .. Len(v) : rk[i] = p - 1]]
    IN  CHOOSE r \in {sorted(v, rk) : v \in {s}, rk \in {ranks(ks) : ks \in {keys}}} : TRUE

Abs(v) == IF v < 0 THEN -v ELSE v

-----------------------------------------------------------------------------
(* road_encoding.ts *)

\* the directions with one more, the reverse of the third
directionsWithReverse == << [x |-> 1, y |-> 0], [x |-> 0, y |-> 1],
                            [x |-> 1, y |-> 1], [x |-> 1, y |-> -1],
                            [x |-> -1, y |-> -1] >>

directions == << [x |-> 1, y |-> 0], [x |-> 0, y |-> 1],
                 [x |-> 1, y |-> 1], [x |-> 1, y |-> -1] >>

\* the cells visited by the inner loop of precomputeRoads from (x, y)
RoadCells(d, x, y) ==
    [k \in 1 .. ROAD_LEN |->
        Pos(x + directions[d].x * (k - 1), y + directions[d].y * (k - 1))]

\* roads in the order they are pushed: direction, then y, then x; a start whose
\* six cells do not all lie on the board gives no road
precomputeRoads ==
    LET n2 == BOARD_SIZE * BOARD_SIZE
        starts == [r \in 1 .. (Len(directions) * n2) |->
                     [d |-> ((r - 1) \div n2) + 1,
                      y |-> ((r - 1) % n2) \div BOARD_SIZE,
                      x |-> (r - 1) % BOARD_SIZE]]
        fits(st) == \A k \in 1 .. ROAD_LEN : isInsideBoard(RoadCells(st.d, st.x, st.y)[k])
        kept == SelectSeq(starts, fits)
    IN  [i \in 1 .. Len(kept) |-> RoadCells(kept[i].d, kept[i].x, kept[i].y)]

ALL_ROADS == precomputeRoads

RoadIds == 1 .. Len(ALL_ROADS)

\* road.cells.map(p => board[p.y][p.x])
RoadValues(s, road) == [k \in 1 .. ROAD_LEN |-> s.board[road[k].y][road[k].x]]

CountValue(cells, v) == Cardinality({k \in 1 .. ROAD_LEN : cells[k] = v})

\* the empty cells of a road, in the order of the road
RoadEmpties(s, road) ==
    LET isEmpty(p) == s.board[p.y][p.x] = 0
    IN  SelectSeq(road, isEmpty)

isHighValueRoadCell(s, pos, minSameColor) ==
    \E r \in RoadIds :
        /\ InSeq(pos, ALL_ROADS[r])
        /\ \/ CountValue(RoadValues(s, ALL_ROADS[r]), 1) >= minSameColor
           \/ CountValue(RoadValues(s, ALL_ROADS[r]), 2) >= minSameColor

-----------------------------------------------------------------------------
(* smart_defense.ts: the threat detector (detectVCDT) *)

\* the roads with `count` stones of the player, no stone of the opponent
\* (so ROAD_LEN - count empty cells), in road order
RoadsWith(s, player, count) ==
    LET hit(r) == /\ CountValue(RoadValues(s, ALL_ROADS[r]), CellValue(player)) = count
                  /\ CountValue(RoadValues(s, ALL_ROADS[r]),
                                CellValue(switchPlayer(player))) = 0
    IN  SelectSeq([r \in RoadIds |-> r], hit)

detectWinningMoves(s, player) ==
    With(RoadsWith(s, player, 5), LAMBDA roads :
         Dedupe(Flatten([i \in 1 .. Len(roads) |-> RoadEmpties(s, ALL_ROADS[roads[i]])])))

detectLive4Segments(s, player) ==
    With(RoadsWith(s, player, 4), LAMBDA roads :
         DedupePairs([i \in 1 .. Len(roads) |-> RoadEmpties(s, ALL_ROADS[roads[i]])]))

\* detectTwoStoneWinningPairs that finds no road
detectTwoStoneWinningPairsOff(s, player) == << >>

detectTwoStoneWinningPairs(s, player) ==
    With(RoadsWith(s, player, 4), LAMBDA roads :
         DedupePairs([i \in 1 .. Len(roads) |-> RoadEmpties(s, ALL_ROADS[roads[i]])]))

Threat(positions, isWinning, threatLevel) ==
    [positions |-> positions, isWinning |-> isWinning, threatLevel |-> threatLevel]

\* the pairs (i, j), i < j, of the double loop over winningCells, in loop order
IndexPairs(n) ==
    Flatten([i \in 1 .. n |-> [k \in 1 .. (n - i) |-> <<i, i + k>>]])

\* detectVCDT without the two-stone wins of a road of four (step 1.b)
detectVCDTSinglePoints(s, player) ==
    With(detectWinningMoves(s, player), LAMBDA winningCells :
    With(detectLive4Segments(s, player), LAMBDA live4Segments :
    With(IF Len(winningCells) >= 2 THEN IndexPairs(Len(winningCells)) ELSE <<>>, LAMBDA combos :
        [i \in 1 .. Len(winningCells) |-> Threat(<<winningCells[i]>>, TRUE, 0)]
        \o [i \in 1 .. Len(combos) |->
               Threat(<<winningCells[combos[i][1]], winningCells[combos[i][2]]>>, TRUE, 1)]
        \o [i \in 1 .. Len(live4Segments) |-> Threat(live4Segments[i], FALSE, 2)])))

detectVCDT(s, player) ==
    With(detectWinningMoves(s, player), LAMBDA winningCells :
    With(detectLive4Segments(s, player), LAMBDA live4Segments :
    With(detectTwoStoneWinningPairs(s, player), LAMBDA twoStonePairs :
    With(IF Len(winningCells) >= 2 THEN IndexPairs(Len(winningCells)) ELSE <<>>, LAMBDA combos :
        [i \in 1 .. Len(winningCells) |-> Threat(<<winningCells[i]>>, TRUE, 0)]
        \o [i \in 1 .. Len(twoStonePairs) |-> Threat(twoStonePairs[i], TRUE, 1)]
        \o [i \in 1 .. Len(combos) |->
               Threat(<<winningCells[combos[i][1]], winningCells[combos[i][2]]>>, TRUE, 1)]
        \o [i \in 1 .. Len(live4Segments) |-> Threat(live4Segments[i], FALSE, 2)]))))

-----------------------------------------------------------------------------
(* rzop.ts *)

OccupiedCells(s) ==
    LET n2 == BOARD_SIZE * BOARD_SIZE
        isOccupied(p) == s.board[p.y][p.x] # 0
    IN  SelectSeq([k \in 1 .. n2 |-> Pos((k - 1) % BOARD_SIZE, (k - 1) \div BOARD_SIZE)],
                  isOccupied)

\* An empty cell enters the result when the first stone (in scan order) that
\* has it within `radius` on both axes is visited, and the cells of one stone
\* enter by dy, then dx: the result is ordered by (first stone, y, x).
computeRelevantZones(s, radius) ==
    LET c == BOARD_SIZE \div 2
        base == << Pos(c, c), Pos(c + 1, c), Pos(c, c + 1), Pos(c - 1, c), Pos(c, c - 1) >>
        free(p) == isInsideBoard(p) /\ s.board[p.y][p.x] = 0
        near(p, q) == Abs(p.x - q.x) <= radius /\ Abs(p.y - q.y) <= radius
        n2 == BOARD_SIZE * BOARD_SIZE
    IN  With(OccupiedCells(s), LAMBDA occupied :
            LET reached(q) == free(q) /\ \E i \in 1 .. Len(occupied) : near(occupied[i], q)
                firstStone(q) == CHOOSE i \in 1 .. Len(occupied) :
                                    /\ near(occupied[i], q)
                                    /\ \A j \in 1 .. (i - 1) : ~near(occupied[j], q)
            IN  IF Len(occupied) = 0
                THEN SelectSeq(base, free)
                ELSE With(SelectSeq([k \in 1 .. n2 |->
                                        Pos((k - 1) % BOARD_SIZE, (k - 1) \div BOARD_SIZE)],
                                    reached),
                          LAMBDA cells :
                              StableSortBy(cells,
                                  [k \in 1 .. Len(cells) |-> firstStone(cells[k])])))

\* the windows of findUrgentThreatBlocks are enumerated as the roads are
\* (direction, y, x, the six cells on the board)
findUrgentThreatBlocks(s) ==
    LET myVal == CellValue(s.currentPlayer)
        oppVal == IF myVal = 1 THEN 2 ELSE 1
        blocks(road) ==
            LET cells == RoadValues(s, road)
                oppCount == CountValue(cells, oppVal)
                myCount == CountValue(cells, myVal)
                empties == RoadEmpties(s, road)
            IN  IF myCount > 0 THEN <<>>
                ELSE IF oppCount >= 5 /\ Len(empties) >= 1 THEN empties
                ELSE IF oppCount >= 4 /\ Len(empties) >= 2 THEN empties
                ELSE <<>>
    IN  Dedupe(Flatten([r \in RoadIds |-> blocks(ALL_ROADS[r])]))

\* consecutive non-empty cells from (x, y) on in direction (dx, dy)
RECURSIVE NonEmptyRun(_, _, _, _, _)
NonEmptyRun(board, x, y, dx, dy) ==
    IF x >= 0 /\ y >= 0 /\ x < BOARD_SIZE /\ y < BOARD_SIZE /\ board[y][x] # 0
    THEN 1 + NonEmptyRun(board, x + dx, y + dy, dx, dy)
    ELSE 0

isPureLineExtension(s, pos) ==
    \E i \in 1 .. Len(DIRS) :
        NonEmptyRun(s.board, pos.x + DIRS[i].dx, pos.y + DIRS[i].dy, DIRS[i].dx, DIRS[i].dy)
        + NonEmptyRun(s.board, pos.x - DIRS[i].dx, pos.y - DIRS[i].dy, -DIRS[i].dx, -DIRS[i].dy)
        >= 5

isDeadLineCell(s, pos) ==
    \A i \in 1 .. Len(DIRS) :
        \A k \in -5 .. 0 :
            LET sx == pos.x + k * DIRS[i].dx
                sy == pos.y + k * DIRS[i].dy
                inBoard(x, y) == x >= 0 /\ y >= 0 /\ x < BOARD_SIZE /\ y < BOARD_SIZE
                has(v) == \E t \in 0 .. 5 :
                             s.board[sy + DIRS[i].dy * t][sx + DIRS[i].dx * t] = v
            IN  (inBoard(sx, sy) /\ inBoard(sx + DIRS[i].dx * 5, sy + DIRS[i].dy * 5))
                    => (has(1) /\ has(2))

isStrategicPosition(s, pos) == TRUE

MAX_NON_URGENT_PER_LINE == 4

\* loop 2 of generateRZOPCandidates over `relevant`; acc holds the non-urgent
\* cells pushed so far, from which the three per-line counters are read
RECURSIVE NonUrgentCandidates(_, _, _, _, _)
NonUrgentCandidates(s, relevant, urgent, i, acc) ==
    IF i > Len(relevant) THEN acc
    ELSE LET pos == relevant[i]
             used(line(_)) == Cardinality({j \in 1 .. Len(acc) : line(acc[j]) = line(pos)})
             row(p) == p.y
             diag1(p) == p.x - p.y
             diag2(p) == p.x + p.y
             skip == \/ InSeq(pos, urgent)
                     \/ ~isHighValueRoadCell(s, pos, 3)
                     \/ ~isStrategicPosition(s, pos)
                     \/ isPureLineExtension(s, pos)
                     \/ isDeadLineCell(s, pos)
                     \/ used(row) >= MAX_NON_URGENT_PER_LINE
                     \/ used(diag1) >= MAX_NON_URGENT_PER_LINE
                     \/ used(diag2) >= MAX_NON_URGENT_PER_LINE
         IN  With(IF skip THEN acc ELSE Append(acc, pos),
                  LAMBDA next : NonUrgentCandidates(s, relevant, urgent, i + 1, next))

\* twice the Manhattan distance of p to the centre ((BOARD_SIZE - 1) / 2 on both axes)
CenterDist2(p) == Abs(2 * p.x - (BOARD_SIZE - 1)) + Abs(2 * p.y - (BOARD_SIZE - 1))

\* generateRZOPCandidates with the urgent cells put through the filters and
\* the quotas of the other candidates
generateRZOPCandidatesFiltered(s) ==
    With(computeRelevantZones(s, 3), LAMBDA relevant :
    With(NonUrgentCandidates(s, relevant, <<>>, 1, <<>>), LAMBDA candidates :
        IF Len(candidates) = 0 THEN relevant
        ELSE StableSortBy(candidates,
                          [i \in 1 .. Len(candidates) |-> CenterDist2(candidates[i])])))

generateRZOPCandidates(s) ==
    With(computeRelevantZones(s, 3), LAMBDA relevant :
    With(findUrgentThreatBlocks(s), LAMBDA urgent :
    With(urgent \o NonUrgentCandidates(s, relevant, urgent, 1, <<>>), LAMBDA candidates :
        LET key(p) == (IF InSeq(p, urgent) THEN 0 ELSE 1) * (4 * BOARD_SIZE) + CenterDist2(p)
        IN  IF Len(candidates) = 0 THEN relevant
            ELSE StableSortBy(candidates,
                              [i \in 1 .. Len(candidates) |-> key(candidates[i])]))))

-----------------------------------------------------------------------------
(* evaluation.ts *)

\* the weights the application passes (App.tsx, defaultWeights)
defaultWeights ==
    [road_3_score |-> 100, road_4_score |-> 350, live4_score |-> 3000,
     live5_score |-> 9000, vcdt_bonus |-> 1500]

\* 2 bits per cell: 00 empty, 01 black, 10 white; cell i at bits 2i, 2i + 1
encodeRoad(s, road) ==
    LET bits(k) == s.board[road[k].y][road[k].x]
        pow4(i) == IF i = 0 THEN 1 ELSE IF i = 1 THEN 4 ELSE IF i = 2 THEN 16
                   ELSE IF i = 3 THEN 64 ELSE IF i = 4 THEN 256 ELSE 1024
        RECURSIVE orAll(_)
        orAll(k) == IF k > ROAD_LEN THEN 0 ELSE bits(k) * pow4(k - 1) + orAll(k + 1)
    IN  orAll(1)

\* the longest run of cells holding `bits` among the six cells of a code
MaxRunOf(code, bits) ==
    LET pow4(i) == IF i = 0 THEN 1 ELSE IF i = 1 THEN 4 ELSE IF i = 2 THEN 16
                   ELSE IF i = 3 THEN 64 ELSE IF i = 4 THEN 256 ELSE 1024
        at(i) == (code \div pow4(i)) % 4
        runs == {len \in 1 .. ROAD_LEN :
                    \E i \in 0 .. (ROAD_LEN - len) :
                        \A t \in i .. (i + len - 1) : at(t) = bits}
    IN  IF runs = {} THEN 0 ELSE CHOOSE m \in runs : \A q \in runs : q <= m

countMaxRun(code, player) ==
    With(code, LAMBDA c :
        [myMax |-> MaxRunOf(c, CellValue(player)),
         oppMax |-> MaxRunOf(c, CellValue(switchPlayer(player)))])

\* the loop returns at the first road the player fills; otherwise every road
\* the opponent fills costs 1,000,000
evaluateRoads(s, player, weights) ==
    With([r \in RoadIds |-> countMaxRun(encodeRoad(s, ALL_ROADS[r]), player)], LAMBDA runs :
        IF \E r \in RoadIds : runs[r].myMax >= 6 THEN 1000000
        ELSE -1000000 * Cardinality({r \in RoadIds : runs[r].oppMax >= 6}))

evaluatePositional(s, player) ==
    LET myVal == CellValue(player)
        \* positional * 2, with center = (BOARD_SIZE - 1) / 2 and maxDist = center * 2
        positional2(p) == 2 * (BOARD_SIZE - 1) - CenterDist2(p)
        RECURSIVE sum(_)
        sum(k) == IF k = BOARD_SIZE * BOARD_SIZE THEN 0
                  ELSE LET p == Pos(k % BOARD_SIZE, k \div BOARD_SIZE)
                           v == s.board[p.y][p.x]
                       IN  (IF v = 0 THEN 0
                            ELSE IF v = myVal THEN positional2(p) ELSE -positional2(p))
                           + sum(k + 1)
    IN  sum(0)

evaluatePatterns(s, player, weights) ==
    LET opp == switchPlayer(player)
        myLive4 == Len(RoadsWith(s, player, 4))
        myLive5 == Len(RoadsWith(s, player, 5))
        oppLive4 == Len(RoadsWith(s, opp, 4))
        oppLive5 == Len(RoadsWith(s, opp, 5))
        myVcdt == Len(detectVCDT(s, player))
        oppVcdt == Len(detectVCDT(s, opp))
    IN  myLive4 * weights.live4_score
        + myLive5 * weights.live5_score
        - (oppLive4 * weights.live4_score * 8) \div 10
        - (oppLive5 * weights.live5_score * 9) \div 10
        + (myVcdt - oppVcdt) * weights.vcdt_bonus

\* the number of threats of a kind in a list of detectVCDT
CountThreats(threats, isWinning, level) ==
    Cardinality({i \in 1 .. Len(threats) :
                    threats[i].isWinning = isWinning /\ threats[i].threatLevel = level})

evaluateThreatDefense(s, player, weights) ==
    With(detectVCDT(s, switchPlayer(player)), LAMBDA oppThreats :
    With(detectVCDT(s, player), LAMBDA myThreats :
    With(CountThreats(oppThreats, FALSE, 2), LAMBDA oppLive4 :
    With(CountThreats(myThreats, FALSE, 2), LAMBDA myLive4 :
    LET oppWinning == CountThreats(oppThreats, TRUE, 0)
        oppDouble == CountThreats(oppThreats, TRUE, 1)
        myWinning == CountThreats(myThreats, TRUE, 0)
        myDouble == CountThreats(myThreats, TRUE, 1)
    IN  - 200000 * oppWinning
        - 120000 * oppDouble
        - (IF oppLive4 >= 2 THEN 80000 * oppLive4 ELSE IF oppLive4 = 1 THEN 40000 ELSE 0)
        + 200000 * myWinning
        + 100000 * myDouble
        + (IF myLive4 >= 2 THEN 30000 * myLive4 ELSE IF myLive4 = 1 THEN 10000 ELSE 0)))))

evaluateState(s, player, weights) ==
    evaluateRoads(s, player, weights)
    + evaluatePatterns(s, player, weights)
    + evaluateThreatDefense(s, player, weights)
    + evaluatePositional(s, player)

-----------------------------------------------------------------------------
(* pvs_search.ts: move generation and ordering *)

MAX_ROOT_MOVE_COMBOS == 50

Take(s, n) == IF Len(s) <= n THEN s ELSE SubSeq(s, 1, n)

Min(a, b) == IF a <= b THEN a ELSE b
Max(a, b) == IF a >= b THEN a ELSE b

MoveOf(player, positions) == [player |-> player, positions |-> positions]

\* addMove with the pair kept in the order given instead of the order of its key
KeyedPairAsGiven(s, p1, p2) ==
    IF p1 = p2 \/ s.board[p1.y][p1.x] # 0 \/ s.board[p2.y][p2.x] # 0 THEN <<>>
    ELSE <<p1, p2>>

\* addMove: the pair in the order of its key, or <<>> when the pair is refused
\* (the same point twice, or a point that is not empty)
KeyedPair(s, p1, p2) ==
    IF p1 = p2 \/ s.board[p1.y][p1.x] # 0 \/ s.board[p2.y][p2.x] # 0 THEN <<>>
    ELSE IF p1.x < p2.x \/ (p1.x = p2.x /\ p1.y <= p2.y) THEN <<p1, p2>>
    ELSE <<p2, p1>>

\* the pairs handed to addMove by addDoubleWinningPairs(threats)
DoubleWinningPairs(s, threats) ==
    LET isPair(t) == t.isWinning /\ t.threatLevel = 1 /\ Len(t.positions) = 2
        picked == SelectSeq(threats, isPair)
    IN  [i \in 1 .. Len(picked) |-> KeyedPair(s, picked[i].positions[1], picked[i].positions[2])]

\* Every pair goes through addMove, which refuses a pair of one point and a
\* point that is not empty, and keeps the first pair of each key while fewer
\* than maxCombos are kept.
generateTwoStoneMoves(s, candidates, player) ==
    LET n == Len(candidates)
        maxCombos == Min((n * (n - 1)) \div 2, 1000)
        \* twice |x - 9.5| + |y - 9.5| (BOARD_CENTER = 9.5)
        centerDist2(p) == Abs(2 * p.x - 19) + Abs(2 * p.y - 19)
        accepted(pr) == pr # <<>>
    IN  With(DoubleWinningPairs(s, detectVCDT(s, switchPlayer(player)))
             \o DoubleWinningPairs(s, detectVCDT(s, player)), LAMBDA forced :
        With(StableSortBy(candidates, [i \in 1 .. n |-> centerDist2(candidates[i])]),
             LAMBDA scored :
        With(Take(scored, Min(30, n)), LAMBDA pri :
        With(IF n > 30 THEN SubSeq(scored, 31, n) ELSE <<>>, LAMBDA backup :
        With(forced, LAMBDA first :
            LET b20 == Min(20, Len(backup))
                priPri == Flatten([i \in 1 .. Len(pri) |->
                             [k \in 1 .. (Len(pri) - i) |-> KeyedPair(s, pri[i], pri[i + k])]])
                priBackup == Flatten([i \in 1 .. Len(pri) |->
                                [j \in 1 .. Len(backup) |-> KeyedPair(s, pri[i], backup[j])]])
                backupBackup == Flatten([i \in 1 .. b20 |->
                                   [k \in 1 .. (b20 - i) |->
                                       KeyedPair(s, backup[i], backup[i + k])]])
            IN  With(Take(Dedupe(SelectSeq(first \o priPri \o priBackup \o backupBackup,
                                           accepted)),
                          maxCombos),
                     LAMBDA kept : [i \in 1 .. Len(kept) |-> MoveOf(player, kept[i])]))))))

findFallbackTwoStoneMove(s, player) ==
    LET n2 == BOARD_SIZE * BOARD_SIZE
        isEmpty(p) == s.board[p.y][p.x] = 0
        empties == SelectSeq([k \in 1 .. n2 |-> Pos((k - 1) % BOARD_SIZE, (k - 1) \div BOARD_SIZE)],
                             isEmpty)
    IN  MoveOf(player, Take(empties, 2))

\* historyTable and killerMoves as the root of a search sees them: the killers
\* are reset when the search starts and the slot read at the root (depth d) is
\* never written below the root (depths < d); the history table is that of a
\* process that has not searched before.
getHistoryScore(player, pos) == 0

findKillerBonus(depth, move) == 0

\* [threw, score]: applyMoveWithWinner may throw, and the exception leaves
\* scoreMoveForOrdering
scoreMoveForOrdering(move, s, rootPlayer, toMove, weights, depth) ==
    With(applyMoveWithWinner(s, move), LAMBDA r :
        IF r.threw THEN [threw |-> TRUE, score |-> 0]
        ELSE
        With(r.next, LAMBDA nextState :
        With(detectVCDT(nextState, toMove), LAMBDA myThreats :
        With(detectVCDT(nextState, switchPlayer(toMove)), LAMBDA oppThreats :
            LET evalScore == evaluateState(nextState, rootPlayer, weights)
                historyScore == getHistoryScore(toMove, move.positions[1])
                                + getHistoryScore(toMove, move.positions[2])
                killerBonus == findKillerBonus(depth, move)
                threatScore == CountThreats(myThreats, TRUE, 0) * 200000
                               + CountThreats(myThreats, TRUE, 1) * 100000
                               + CountThreats(myThreats, FALSE, 2) * 10000
                               - CountThreats(oppThreats, TRUE, 0) * 180000
                               - CountThreats(oppThreats, TRUE, 1) * 90000
                               - CountThreats(oppThreats, FALSE, 2) * 80000
            IN  [threw |-> FALSE,
                 \* evalScore + threatScore * 0.3 + historyScore * 0.1 + killerBonus
                 score |-> evalScore + (threatScore * 3) \div 10
                           + historyScore \div 10 + killerBonus]))))

\* [threw, moves]: the moves by descending orderScore (a stable sort)
orderMoves(moves, s, rootPlayer, toMove, weights, depth) ==
    With([i \in 1 .. Len(moves) |->
             scoreMoveForOrdering(moves[i], s, rootPlayer, toMove, weights, depth)],
         LAMBDA scored :
            IF \E i \in 1 .. Len(moves) : scored[i].threw
            THEN [threw |-> TRUE, moves |-> <<>>]
            ELSE [threw |-> FALSE,
                  moves |-> StableSortBy(moves, [i \in 1 .. Len(moves) |-> -scored[i].score])])

-----------------------------------------------------------------------------
(* pvs_search.ts, smart_defense.ts: the decision at the root from the threats *)

\* the positions of a threat that are empty on the board, each once
ThreatEmpties(s, threat) ==
    LET isEmpty(p) == s.board[p.y][p.x] = 0
    IN  Dedupe(SelectSeq(threat.positions, isEmpty))

\* [must, second]: second is the first RZOP candidate other than must, or must
\* itself when there is none (candidates[0] ?? must)
MustAndSecond(s, player, must) ==
    LET other(p) == p # must
    IN  With(SelectSeq(generateRZOPCandidates(s), other), LAMBDA candidates :
            MoveOf(player, <<must, IF Len(candidates) > 0 THEN candidates[1] ELSE must>>))

buildTwoStoneMoveFromThreat(s, player, threat) ==
    With(ThreatEmpties(s, threat), LAMBDA empties :
        IF threat.threatLevel = 2 /\ Len(empties) >= 2
        THEN MoveOf(player, <<empties[1], empties[2]>>)
        ELSE IF Len(empties) >= 1 THEN MustAndSecond(s, player, empties[1])
        ELSE findFallbackTwoStoneMove(s, player))

\* NoMove stands for null
buildBlockMoveForOpponentDoubleWins(s, rootPlayer, threats) ==
    LET isEmpty(p) == s.board[p.y][p.x] = 0
        \* case 2: the empty points of the first pair that lie in every other pair
        inAll(p) == isEmpty(p) /\ \A i \in 2 .. Len(threats) : InSeq(p, threats[i].positions)
        count(p) == Cardinality({i \in 1 .. Len(threats) : InSeq(p, threats[i].positions)})
    IN  IF Len(threats) = 0 THEN NoMove
        ELSE IF Len(threats) = 1 /\ Len(threats[1].positions) = 2
        THEN \* case 1: one pair
             With(SelectSeq(threats[1].positions, isEmpty), LAMBDA empties :
                 IF Len(empties) = 2 THEN MoveOf(rootPlayer, <<empties[1], empties[2]>>)
                 ELSE IF Len(empties) = 1 THEN MustAndSecond(s, rootPlayer, empties[1])
                 ELSE NoMove)
        ELSE With(SelectSeq(threats[1].positions, inAll), LAMBDA intersection :
             IF Len(intersection) > 0 THEN MustAndSecond(s, rootPlayer, intersection[1])
             ELSE \* case 3: the empty points by the number of pairs they lie in; the
                  \* map keeps the order of first insertion and the sort is stable
                  With(Dedupe(SelectSeq(Flatten([i \in 1 .. Len(threats) |->
                                                    threats[i].positions]),
                                        isEmpty)), LAMBDA points :
                  With(StableSortBy(points, [i \in 1 .. Len(points) |-> -count(points[i])]),
                       LAMBDA arr :
                      IF Len(arr) = 0 THEN NoMove
                      ELSE IF Len(arr) >= 2 THEN MoveOf(rootPlayer, <<arr[1], arr[2]>>)
                      ELSE MustAndSecond(s, rootPlayer, arr[1]))))

\* [threw, safe]: the one-stone move is handed to applyMoveWithWinner
isSingleBlockSafe(s, rootPlayer, blockPos) ==
    IF s.board[blockPos.y][blockPos.x] # 0 THEN [threw |-> FALSE, safe |-> FALSE]
    ELSE With(applyMoveWithWinner(s, MoveOf(rootPlayer, <<blockPos>>)), LAMBDA r :
        IF r.threw THEN [threw |-> TRUE, safe |-> FALSE]
        ELSE With(detectVCDT(r.next, switchPlayer(rootPlayer)), LAMBDA after :
            LET hasImmediateWin == \E i \in 1 .. Len(after) :
                                      after[i].isWinning /\ after[i].threatLevel \in {0, 1}
            IN  [threw |-> FALSE, safe |-> ~hasImmediateWin]))

\* the first candidate at the least distance to the centre
pickBestByCenter(candidates) ==
    candidates[CHOOSE i \in 1 .. Len(candidates) :
                  /\ \A j \in 1 .. Len(candidates) :
                        CenterDist2(candidates[i]) <= CenterDist2(candidates[j])
                  /\ \A j \in 1 .. (i - 1) :
                        CenterDist2(candidates[j]) > CenterDist2(candidates[i])]

\* [threw, move]
buildSmartBlockForOpponentLive4(s, rootPlayer, threat) ==
    With(ThreatEmpties(s, threat), LAMBDA empties :
        IF Len(empties) >= 2
        THEN With([i \in 1 .. Len(empties) |-> isSingleBlockSafe(s, rootPlayer, empties[i])],
                  LAMBDA checks :
                 LET isSafe(e) == \E i \in 1 .. Len(empties) : empties[i] = e /\ checks[i].safe
                 IN  IF \E i \in 1 .. Len(empties) : checks[i].threw
                     THEN [threw |-> TRUE, move |-> NoMove]
                     ELSE With(SelectSeq(empties, isSafe), LAMBDA safeSingles :
                          IF Len(safeSingles) > 0
                          THEN [threw |-> FALSE,
                                move |-> MustAndSecond(s, rootPlayer,
                                                       pickBestByCenter(safeSingles))]
                          ELSE [threw |-> FALSE,
                                move |-> MoveOf(rootPlayer, <<empties[1], empties[2]>>)]))
        ELSE IF Len(empties) = 1
        THEN [threw |-> FALSE, move |-> MustAndSecond(s, rootPlayer, empties[1])]
        ELSE [threw |-> FALSE,
              move |-> MoveOf(rootPlayer, Take(generateRZOPCandidates(s), 2))])

FirstThreat(threats, isWinning, level) ==
    LET is(t) == t.isWinning = isWinning /\ t.threatLevel = level
    IN  SelectSeq(threats, is)

\* [found, threw, move, reason]; found = FALSE stands for null
FoundMove(move, reason) ==
    [found |-> TRUE, threw |-> FALSE, move |-> move, reason |-> reason]

NoRootMove(threw) ==
    [found |-> FALSE, threw |-> threw, move |-> NoMove, reason |-> ""]

\* findVcdtRootMove past the own win: the opponent's two-stone wins, its
\* single-point win, its live four
DefendAtRoot(s, rootPlayer) ==
    With(detectVCDT(s, switchPlayer(rootPlayer)), LAMBDA oppThreats :
    With(FirstThreat(oppThreats, TRUE, 1), LAMBDA oppDoubleWins :
    With(FirstThreat(oppThreats, TRUE, 0), LAMBDA oppWin :
    With(FirstThreat(oppThreats, FALSE, 2), LAMBDA oppLive4 :
    With(IF Len(oppDoubleWins) > 0
         THEN buildBlockMoveForOpponentDoubleWins(s, rootPlayer, oppDoubleWins)
         ELSE NoMove, LAMBDA mv :
        IF mv # NoMove
        THEN FoundMove(mv, "block_opp_double_win")
        ELSE IF Len(oppWin) > 0
        THEN FoundMove(buildTwoStoneMoveFromThreat(s, rootPlayer, oppWin[1]), "block_opp_win")
        ELSE IF Len(oppLive4) > 0
        THEN With(buildSmartBlockForOpponentLive4(s, rootPlayer, oppLive4[1]),
                  LAMBDA smart :
                 IF smart.threw THEN NoRootMove(TRUE)
                 ELSE FoundMove(smart.move,
                                IF Len(smart.move.positions) >= 2
                                THEN "block_opp_live4_both_ends"
                                ELSE "block_opp_live4_smart_single"))
        ELSE NoRootMove(FALSE))))))

\* findVcdtRootMove with the defence looked for before the own win
findVcdtRootMoveDefenceFirst(s, rootPlayer) ==
    With(DefendAtRoot(s, rootPlayer), LAMBDA defence :
    With(FirstThreat(detectVCDT(s, rootPlayer), TRUE, 0), LAMBDA myWin :
        IF defence.found \/ defence.threw THEN defence
        ELSE IF Len(myWin) > 0
        THEN FoundMove(buildTwoStoneMoveFromThreat(s, rootPlayer, myWin[1]), "own_win")
        ELSE NoRootMove(FALSE)))

findVcdtRootMove(s, rootPlayer) ==
    With(FirstThreat(detectVCDT(s, rootPlayer), TRUE, 0), LAMBDA myWin :
        IF Len(myWin) > 0
        THEN FoundMove(buildTwoStoneMoveFromThreat(s, rootPlayer, myWin[1]), "own_win")
        ELSE DefendAtRoot(s, rootPlayer))

-----------------------------------------------------------------------------
(* pvs_search.ts: pvsSearchBestMove, one action per stretch of code between  *)
(* two readings of the clock                                                 *)

Infinity == 1000000000

ASPIRATION_WINDOW == 50000

\* a + b in floating point where a may be plus or minus Infinity
Plus(a, b) == IF a >= Infinity THEN Infinity ELSE IF a <= -Infinity THEN -Infinity ELSE a + b

\* The head of pvs.  [known, score]: the score when the deadline has passed
\* (static evaluation) or the state is terminal; below that (quiescence, the
\* transposition table, the recursive search) the score is left open.
pvs(s, rootPlayer, depth, weights, expired) ==
    IF expired THEN [known |-> TRUE, score |-> evaluateState(s, rootPlayer, weights)]
    ELSE IF s.winner # NoWinner
    THEN [known |-> TRUE,
          score |-> IF s.winner = rootPlayer
                    THEN 1000000 + depth * 10000
                    ELSE -1000000 - depth * 10000]
    ELSE [known |-> FALSE, score |-> 0]

\* scores the search below the root may return where pvs leaves them open;
\* one is drawn for the VCDT root move and one for each iteration of the loop
DeepScores == {-500000, 500000}

NoDecision == [move |-> NoMove, score |-> 0, mode |-> "", reason |-> "", depth |-> 0]

IdleSearch ==
    [pc |-> "idle", maxDepth |-> 0, clock |-> "early", exact |-> TRUE,
     moveCombos |-> <<>>, sorted |-> <<>>, d |-> 0, i |-> 0,
     alpha |-> 0, beta |-> 0, bestMove |-> NoMove, bestScore |-> 0, searchedDepth |-> 0,
     iterBestMove |-> NoMove, iterBestScore |-> 0, failed |-> FALSE, score |-> 0,
     deep |-> 0,
     decision |-> NoDecision]

\* Date.now() against the deadline: "early" while deadline - now >= 100,
\* "late" while 0 <= deadline - now < 100, "expired" once now > deadline.
\* Inside the loop over the root moves the code only asks whether the deadline
\* has passed, so the step from early to late is taken at the loop's head.
Tick ==
    /\ search.pc \in {"root", "vcdt", "iter", "move", "research", "after", "iterEnd"}
    /\ search.clock # "expired"
    /\ \E c \in {"late", "expired"} :
          /\ c = "late" => search.clock = "early" /\ search.pc \in {"root", "iter"}
          /\ search' = [search EXCEPT !.clock = c]
    /\ UNCHANGED <<state, call, applied, checked, fn, engineVars>>

\* the caller (App.tsx) asks for a move in a state without a winner
StartSearch ==
    /\ search.pc = "idle"
    /\ state.winner = NoWinner
    /\ \E depth \in 1 .. MaxDepth, c \in {"early", "late"} :
          search' = [search EXCEPT !.pc = "root", !.maxDepth = Max(1, depth), !.clock = c]
    /\ UNCHANGED <<state, call, applied, checked, fn, engineVars>>

Finish(move, score, mode, reason, depth) ==
    [search EXCEPT !.pc = "done",
                   !.decision = [move |-> move, score |-> score, mode |-> mode,
                                 reason |-> reason, depth |-> depth]]

\* the moveCombos.length > MAX_ROOT_MOVE_COMBOS branch: [threw, moves]
PruneRootMoves(s, rootPlayer, weights, moveCombos) ==
    LET myWins(n) == Len(SelectSeq(detectVCDT(n, rootPlayer),
                                   LAMBDA t : t.isWinning /\ t.threatLevel = 0))
        score(move) == LET r == applyMoveWithWinner(s, move)
                       IN  IF r.threw THEN Infinity
                           ELSE evaluateState(r.next, rootPlayer, weights)
                                + myWins(r.next) * 100000
        scores == CHOOSE f \in {[k \in 1 .. Len(moveCombos) |-> score(moveCombos[k])]} : TRUE
    IN  IF \E k \in 1 .. Len(moveCombos) : scores[k] = Infinity
        THEN [threw |-> TRUE, moves |-> <<>>]
        ELSE [threw |-> FALSE,
              moves |-> Take(StableSortBy(moveCombos, [k \in 1 .. Len(moveCombos) |-> -scores[k]]),
                             MAX_ROOT_MOVE_COMBOS)]

\* pvsSearchBestMove from its first line to the first pvs call or the return
SearchRoot ==
    /\ search.pc = "root"
    /\ LET rootPlayer == state.currentPlayer
           weights == defaultWeights
           remainDepth == Max(0, search.maxDepth - 1)
       IN  \E vcdtRoot \in {findVcdtRootMove(state, rootPlayer)} :
           IF vcdtRoot.threw
           THEN search' = [search EXCEPT !.pc = "threw"]
           ELSE IF vcdtRoot.found
           THEN \E r \in {applyMoveWithWinner(state, vcdtRoot.move)} :
                    IF r.threw
                    THEN search' = [search EXCEPT !.pc = "threw"]
                    ELSE IF remainDepth > 0
                    THEN search' = [search EXCEPT !.pc = "vcdt", !.bestMove = vcdtRoot.move,
                                                  !.decision.reason = vcdtRoot.reason]
                    ELSE search' = Finish(vcdtRoot.move, evaluateState(r.next, rootPlayer, weights),
                                          "vcdt_root", vcdtRoot.reason, 1)
           ELSE \E candidates \in {generateRZOPCandidates(state)} :
                \E moveCombos \in {generateTwoStoneMoves(state, candidates, rootPlayer)} :
                    IF Len(moveCombos) = 0
                    THEN search' = Finish(findFallbackTwoStoneMove(state, rootPlayer),
                                          evaluateState(state, rootPlayer, weights),
                                          "no_candidate_fallback", "", 0)
                    ELSE \E pruned \in {IF Len(moveCombos) > MAX_ROOT_MOVE_COMBOS
                                        THEN PruneRootMoves(state, rootPlayer, weights, moveCombos)
                                        ELSE [threw |-> FALSE, moves |-> moveCombos]} :
                         IF pruned.threw
                         THEN search' = [search EXCEPT !.pc = "threw"]
                         ELSE search' = [search EXCEPT !.pc = "iter", !.moveCombos = pruned.moves,
                                                       !.bestMove = pruned.moves[1],
                                                       !.bestScore = -Infinity,
                                                       !.searchedDepth = 0, !.d = 1]
    /\ UNCHANGED <<state, call, applied, checked, fn, engineVars>>

\* score = -pvs(next, ..., remainDepth, ...) of the VCDT root move, and the return
VcdtScore ==
    /\ search.pc = "vcdt"
    /\ LET rootPlayer == state.currentPlayer
           remainDepth == Max(0, search.maxDepth - 1)
       IN  \E next \in {applyMoveWithWinner(state, search.bestMove).next} :
           \E v \in {pvs(next, rootPlayer, remainDepth, defaultWeights, search.clock = "expired")} :
           \E open \in DeepScores :
              search' = [Finish(search.bestMove, IF v.known THEN -v.score ELSE -open,
                                "vcdt_root", search.decision.reason, 1 + remainDepth)
                           EXCEPT !.exact = v.known]
    /\ UNCHANGED <<state, call, applied, checked, fn, engineVars>>

\* the head of the iterative deepening loop: the loop test, the timeLeft
\* check, the window and orderMoves; past the loop, the return
IterStart ==
    /\ search.pc = "iter"
    /\ IF search.d > search.maxDepth \/ search.clock # "early"
       THEN search' = Finish(search.bestMove, search.bestScore, "normal", "", search.searchedDepth)
       ELSE \E o \in {orderMoves(search.moveCombos, state, state.currentPlayer,
                                  state.currentPlayer, defaultWeights, search.d)} :
            \E open \in DeepScores :
                IF o.threw
                THEN search' = [search EXCEPT !.pc = "threw"]
                ELSE search' = [search EXCEPT
                        !.pc = "move",
                        !.deep = open,
                        !.alpha = IF search.d = 1 THEN -Infinity
                                  ELSE Plus(search.bestScore, -ASPIRATION_WINDOW),
                        !.beta = IF search.d = 1 THEN Infinity
                                 ELSE Plus(search.bestScore, ASPIRATION_WINDOW),
                        !.iterBestMove = search.bestMove,
                        !.iterBestScore = -Infinity,
                        !.failed = FALSE,
                        !.sorted = o.moves,
                        !.i = 1]
    /\ UNCHANGED <<state, call, applied, checked, fn, engineVars>>

\* the score of a root move from one pvs call at depth d - 1
ScoreOf(r, v, scores) ==
    IF r.threw THEN {[threw |-> TRUE, known |-> TRUE, score |-> 0]}
    ELSE IF v.known THEN {[threw |-> FALSE, known |-> TRUE, score |-> -v.score]}
    ELSE {[threw |-> FALSE, known |-> FALSE, score |-> -open] : open \in scores}

PvsOfMove(move, scores) ==
    UNION {UNION {ScoreOf(r, v, scores) :
                     v \in {pvs(r.next, state.currentPlayer, search.d - 1, defaultWeights,
                                search.clock = "expired")}} :
              r \in {applyMoveWithWinner(state, move)}}

\* the first pvs call for sorted[i]: full window for i = 0, null window after
RootMove ==
    /\ search.pc = "move"
    /\ \E v \in PvsOfMove(search.sorted[search.i], {search.deep}) :
          IF v.threw
          THEN search' = [search EXCEPT !.pc = "threw"]
          ELSE LET first == search.i = 1 \/ search.failed
               IN  search' = [search EXCEPT
                       !.score = v.score,
                       !.exact = search.exact /\ v.known,
                       !.pc = IF ~first /\ v.score > search.alpha /\ v.score < search.beta
                              THEN "research" ELSE "after"]
    /\ UNCHANGED <<state, call, applied, checked, fn, engineVars>>

\* the second pvs call, with the full window
Research ==
    /\ search.pc = "research"
    /\ \E v \in PvsOfMove(search.sorted[search.i], {search.deep}) :
          search' = [search EXCEPT !.score = v.score,
                                   !.exact = search.exact /\ v.known,
                                   !.pc = "after"]
    /\ UNCHANGED <<state, call, applied, checked, fn, engineVars>>

\* the update of the iteration's best move and the deadline check
AfterMove ==
    /\ search.pc = "after"
    /\ LET better == search.score > search.iterBestScore
           expired == search.clock = "expired"
       IN  search' = [search EXCEPT
               !.iterBestScore = IF better THEN search.score ELSE @,
               !.iterBestMove = IF better THEN search.sorted[search.i] ELSE @,
               !.alpha = IF better /\ search.score > search.alpha THEN search.score ELSE @,
               !.failed = expired,
               !.i = IF expired \/ search.i = Len(search.sorted) THEN @ ELSE @ + 1,
               !.pc = IF expired \/ search.i = Len(search.sorted) THEN "iterEnd" ELSE "move"]
    /\ UNCHANGED <<state, call, applied, checked, fn, engineVars>>

\* the end of one iteration: its result is kept if it completed or d = 1
IterEnd ==
    /\ search.pc = "iterEnd"
    /\ LET keep == ~search.failed \/ search.d = 1
       IN  search' = [search EXCEPT
               !.bestMove = IF keep THEN search.iterBestMove ELSE @,
               !.bestScore = IF keep THEN search.iterBestScore ELSE @,
               !.searchedDepth = IF keep THEN search.d ELSE @,
               !.d = @ + 1,
               !.pc = "iter"]
    /\ UNCHANGED <<state, call, applied, checked, fn, engineVars>>

\* the caller (App.tsx) drops a decision with the wrong number of stones and
\* applies any other
ApplyDecision ==
    /\ search.pc = "done"
    /\ LET move == search.decision.move
           required == getStonesToPlace(state.moveNumber, state.currentPlayer)
       IN  IF move = NoMove \/ Len(move.positions) # required
           THEN UNCHANGED <<state, call, applied>>
           ELSE \E r \in {applyMoveWithWinner(state, move)} :
                /\ call' = [kind |-> "apply", arg |-> state, move |-> move,
                            threw |-> r.threw, error |-> r.error, argAfter |-> r.argAfter]
                /\ state' = IF r.threw THEN state ELSE r.next
                /\ applied' = IF r.threw THEN applied ELSE applied + 1
    /\ search' = [search EXCEPT !.pc = "applied"]
    /\ UNCHANGED <<checked, fn, engineVars>>

-----------------------------------------------------------------------------
(* The search specification: positions reachable by legal play in which     *)
(* pvsSearchBestMove is called, the search, and the caller applying the     *)
(* decision                                                                  *)

\* the empty cells of a line of six: of the mover's line (row 0) and of the
\* opponent's line (row 2); 0 .. 5 is no line at all
LineGaps == {{5}, {2}, {4, 5}, {1, 4}, {0, 4, 5}, 0 .. 5}

\* the same for a second line of the opponent (row 3)
SecondLineGaps == {{4, 5}, 0 .. 5}

LineStones(y, gaps) == {Pos(x, y) : x \in (0 .. 5) \ gaps}

\* stones that level the counts: the opponent has moved last, so it has one
\* stone more than the mover
FillerCells(own) ==
    IF own THEN <<Pos(0, 4), Pos(2, 4), Pos(4, 4), Pos(1, 5), Pos(3, 5), Pos(5, 5),
                  Pos(0, 1), Pos(2, 1), Pos(4, 1)>>
    ELSE <<Pos(1, 4), Pos(3, 4), Pos(5, 4), Pos(0, 5), Pos(2, 5), Pos(4, 5)>>

SeqToSet(s) == {s[k] : k \in 1 .. Len(s)}

\* the state after legal play that has put moverCells and oppCells on the board
StateOf(moverCells, oppCells) ==
    LET ply == Cardinality(moverCells) + 1
        mover == IF ply % 2 = 0 THEN "BLACK" ELSE "WHITE"
        opp == switchPlayer(mover)
        black == IF mover = "BLACK" THEN moverCells ELSE oppCells
        white == IF mover = "BLACK" THEN oppCells ELSE moverCells
        last == SelectSeq([k \in 1 .. BOARD_SIZE * BOARD_SIZE |->
                              Pos((k - 1) % BOARD_SIZE, (k - 1) \div BOARD_SIZE)],
                          LAMBDA p : p \in oppCells)
    IN  [board |-> [y \in Coords |-> [x \in Coords |->
                       IF Pos(x, y) \in black THEN 1
                       ELSE IF Pos(x, y) \in white THEN 2 ELSE 0]],
         currentPlayer |-> mover,
         moveNumber |-> ply,
         lastMove |-> MoveOf(opp, Take(last, getStonesToPlace(ply - 1, opp))),
         winner |-> NoWinner]

LineState(moverGaps, oppGaps, opp2Gaps) ==
    LET m == 6 - Cardinality(moverGaps)
        o == (6 - Cardinality(oppGaps)) + (6 - Cardinality(opp2Gaps))
        fm == IF o > m + 1 THEN o - 1 - m ELSE 0
        fo == IF o > m + 1 THEN 0 ELSE m + 1 - o
    IN  StateOf(LineStones(0, moverGaps) \cup SeqToSet(Take(FillerCells(TRUE), fm)),
                LineStones(2, oppGaps) \cup LineStones(3, opp2Gaps)
                    \cup SeqToSet(Take(FillerCells(FALSE), fo)))

RootStates ==
    {createInitialState}
    \cup {LineState(mg, og, og2) : mg \in LineGaps, og \in LineGaps, og2 \in SecondLineGaps}

InitPvs ==
    /\ state \in RootStates
    /\ call = NoCall
    /\ applied = state.moveNumber
    /\ checked = NoCheck
    /\ search = IdleSearch
    /\ fn = NoFn
    /\ hybrid = NoHybrid
    /\ transpositionTable = NoTable
    /\ mcts = NoMcts

NextPvs ==
    \/ StartSearch
    \/ Tick
    \/ SearchRoot
    \/ VcdtScore
    \/ IterStart
    \/ RootMove
    \/ Research
    \/ AfterMove
    \/ IterEnd
    \/ ApplyDecision

SpecPvs == InitPvs /\ [][NextPvs]_vars

-----------------------------------------------------------------------------
(* The functions specification: one call of a function of the engine on a   *)
(* state drawn from the roots of the search and the boards of the winner    *)
(* specification (lines of five and six, one or two of them, of one colour  *)
(* or of both).                                                             *)

FnStates ==
    RootStates
    \cup {[createInitialState EXCEPT !.board = LayLine(under, l.start, l.dir, v, gap)] :
             l \in TestLines, v \in {1, 2}, gap \in {2, ROAD_LEN},
             under \in {createEmptyBoard}
                       \cup {LayLine(createEmptyBoard, Pos(0, 3), DIRS[1], w, ROAD_LEN) :
                                w \in {1, 2}}}

\* candidate lists a caller can hand to generateTwoStoneMoves: the RZOP
\* candidates, the same list twice over, every cell of the board, a list of
\* two and the empty list
CandidateLists(s) ==
    LET rzop == generateRZOPCandidates(s)
        n2 == BOARD_SIZE * BOARD_SIZE
    IN  {rzop, rzop \o rzop, Take(rzop, 2), <<>>,
         [k \in 1 .. n2 |-> Pos((k - 1) % BOARD_SIZE, (k - 1) \div BOARD_SIZE)]}

\* weight vectors handed to the evaluator
WeightInputs ==
    {defaultWeights,
     [road_3_score |-> 1, road_4_score |-> 2, live4_score |-> 3,
      live5_score |-> 4, vcdt_bonus |-> 5]}

\* getAllRoads(): the roads with the ids precomputeRoads gives them (id++)
getAllRoads == [i \in RoadIds |-> [id |-> i - 1, cells |-> ALL_ROADS[i]]]

InitFns ==
    /\ state \in FnStates
    /\ call = NoCall
    /\ applied = 0
    /\ checked = NoCheck
    /\ search = [pc |-> "none"]
    /\ fn = NoFn
    /\ hybrid = NoHybrid
    /\ transpositionTable = NoTable
    /\ mcts = NoMcts

\* buildSmartBlockForOpponentLive4(state, rootPlayer, oppLive4) as
\* findVcdtRootMove calls it: rootPlayer is to move, the threat is a live four
\* of the opponent
CallSmartBlock ==
    /\ fn.name = "none"
    /\ \E rootPlayer \in {state.currentPlayer} :
       \E live4 \in {FirstThreat(detectVCDT(state, switchPlayer(rootPlayer)), FALSE, 2)} :
       \E i \in 1 .. Len(live4) :
       \E r \in {buildSmartBlockForOpponentLive4(state, rootPlayer, live4[i])} :
          fn' = [name |-> "buildSmartBlockForOpponentLive4", rootPlayer |-> rootPlayer,
                 threat |-> live4[i], threw |-> r.threw, move |-> r.move]
    /\ UNCHANGED <<state, call, applied, checked, search, engineVars>>

CallRzop ==
    /\ fn.name = "none"
    /\ fn' = [name |-> "generateRZOPCandidates", result |-> generateRZOPCandidates(state)]
    /\ UNCHANGED <<state, call, applied, checked, search, engineVars>>

CallTwoStoneMoves ==
    /\ fn.name = "none"
    /\ \E candidates \in CandidateLists(state) :
          fn' = [name |-> "generateTwoStoneMoves", candidates |-> candidates,
                 result |-> generateTwoStoneMoves(state, candidates, state.currentPlayer)]
    /\ UNCHANGED <<state, call, applied, checked, search, engineVars>>

CallGetAllRoads ==
    /\ fn.name = "none"
    /\ fn' = [name |-> "getAllRoads", result |-> getAllRoads]
    /\ UNCHANGED <<state, call, applied, checked, search, engineVars>>

CallEvaluateRoads ==
    /\ fn.name = "none"
    /\ \E w \in WeightInputs :
          fn' = [name |-> "evaluateRoads", weights |-> w,
                 black |-> evaluateRoads(state, "BLACK", w),
                 white |-> evaluateRoads(state, "WHITE", w)]
    /\ UNCHANGED <<state, call, applied, checked, search, engineVars>>

NextFns ==
    \/ CallSmartBlock
    \/ CallRzop
    \/ CallTwoStoneMoves
    \/ CallGetAllRoads
    \/ CallEvaluateRoads

SpecFns == InitFns /\ [][NextFns]_vars

-----------------------------------------------------------------------------
(* smart_defense.ts and pvs_search.ts: the threats of a position, the root   *)
(* move they give and the two-stone moves of the mover, on positions with    *)
(* lines of both players and with crossing lines.                            *)

\* two columns with five stones of the mover and the top cell empty, and, if
\* withRow, four stones of the mover on the top row around the two empty cells
CrossStones(withRow) ==
    {Pos(1, y) : y \in 1 .. 5} \cup {Pos(4, y) : y \in 1 .. 5}
    \cup (IF withRow THEN {Pos(0, 0), Pos(2, 0), Pos(3, 0), Pos(5, 0)} ELSE {})

\* the cells the opponent fills beside the columns, one stone more than the
\* mover has
CrossFiller ==
    [k \in 1 .. 20 |-> Pos(<<0, 2, 3, 5>>[((k - 1) % 4) + 1], ((k - 1) \div 4) + 1)]

CrossState(withRow) ==
    StateOf(CrossStones(withRow),
            SeqToSet(Take(CrossFiller, Cardinality(CrossStones(withRow)) + 1)))

\* the positions: a line of the mover and a line of the opponent with none,
\* one or two empty cells each, and the crossing lines
VcdtStates ==
    {LineState(mg, og, 0 .. 5) : mg \in LineGaps, og \in LineGaps}
    \cup {CrossState(withRow) : withRow \in BOOLEAN}

InitVcdt ==
    /\ state \in VcdtStates
    /\ call = NoCall
    /\ applied = 0
    /\ checked = NoCheck
    /\ search = [pc |-> "none"]
    /\ fn = NoFn
    /\ hybrid = NoHybrid
    /\ transpositionTable = NoTable
    /\ mcts = NoMcts

CallDetectVCDT ==
    /\ fn.name = "none"
    /\ \E player \in Players :
          fn' = [name |-> "detectVCDT", player |-> player,
                 result |-> detectVCDT(state, player)]
    /\ UNCHANGED <<state, call, applied, checked, search, engineVars>>

\* findVcdtRootMove(rootState, rootPlayer) as pvsSearchBestMove calls it
CallFindVcdtRootMove ==
    /\ fn.name = "none"
    /\ \E r \in {findVcdtRootMove(state, state.currentPlayer)} :
          fn' = [name |-> "findVcdtRootMove", rootPlayer |-> state.currentPlayer,
                 found |-> r.found, threw |-> r.threw, move |-> r.move,
                 reason |-> r.reason]
    /\ UNCHANGED <<state, call, applied, checked, search, engineVars>>

\* applyMoveWithWinner on a move of the mover that names two cells of the
\* board, empty or not
CallApplyPair ==
    /\ fn.name = "none"
    /\ \E p \in AllCells, q \in AllCells :
          /\ p.y < q.y \/ (p.y = q.y /\ p.x < q.x)
          /\ \E r \in {applyMoveWithWinner(state, MoveOf(state.currentPlayer, <<p, q>>))} :
                fn' = [name |-> "applyMoveWithWinner",
                       move |-> MoveOf(state.currentPlayer, <<p, q>>),
                       threw |-> r.threw, winner |-> r.next.winner]
    /\ UNCHANGED <<state, call, applied, checked, search, engineVars>>

NextVcdt ==
    \/ CallDetectVCDT
    \/ CallFindVcdtRootMove
    \/ CallApplyPair

SpecVcdt == InitVcdt /\ [][NextVcdt]_vars

-----------------------------------------------------------------------------
(* hybrid_strategy.ts, position_complexity.ts: HybridStrategyManager.         *)
(* decideMove.  The two engines are taken by their results only: a decision  *)
(* with a score drawn when the engine returns.  pvsSearchBestMove is a       *)
(* synchronous call; mctsAI.decideMove is awaited.  decideMove is handed any *)
(* GameState: the move numbers of the table are paired with boards of the    *)
(* model of every density.                                                   *)

\* a number num / den, den > 0
Ratio(num, den) == [num |-> num, den |-> den]

\* a > b for the number a and the decimal tenths / 10
MoreThanTenths(a, tenths) == 10 * a.num > tenths * a.den

\* Math.min(1, stones / maxStones * 0.5 + mixedRoads / roads.length * 0.5)
\* the same with the two factors added in full (no halves)
ComplexityOfSum(stones, mixedRoads, maxStones, roads) ==
    LET num == stones * roads + mixedRoads * maxStones
        den == maxStones * roads
    IN  Ratio(Min(num, den), den)

\* the value of estimateComplexity for the counts of its two loops
ComplexityOf(stones, mixedRoads, maxStones, roads) ==
    LET num == stones * roads + mixedRoads * maxStones
        den == 2 * maxStones * roads
    IN  Ratio(Min(num, den), den)

estimateComplexity(s) ==
    LET stones == Cardinality({c \in AllCells : s.board[c.y][c.x] # 0})
        mixed(r) == /\ CountValue(RoadValues(s, ALL_ROADS[r]), 1) > 0
                    /\ CountValue(RoadValues(s, ALL_ROADS[r]), 2) > 0
        mixedRoads == Cardinality({r \in RoadIds : mixed(r)})
    IN  ComplexityOf(stones, mixedRoads, BOARD_SIZE * BOARD_SIZE, Len(ALL_ROADS))

\* selectStrategy with the first bound of the step taken strictly
selectStrategyStrict(step, complexity) ==
    IF step < 10 THEN "traditional"
    ELSE IF step <= 30 /\ MoreThanTenths(complexity, 6) THEN "hybrid"
    ELSE IF step <= 30 /\ ~MoreThanTenths(complexity, 6) THEN "traditional"
    ELSE IF step > 30 THEN "traditional"
    ELSE "hybrid"

selectStrategy(step, complexity) ==
    IF step <= 10 THEN "traditional"
    ELSE IF step <= 30 /\ MoreThanTenths(complexity, 6) THEN "hybrid"
    ELSE IF step <= 30 /\ ~MoreThanTenths(complexity, 6) THEN "traditional"
    ELSE IF step > 30 THEN "traditional"
    ELSE "hybrid"

\* the scores an engine returns, by their order only
EngineScores == {-1, 0, 1}

\* the move numbers around the bounds of the table
HybridSteps == {0, 10, 11, 20, 30, 31}

HybridBoards ==
    {createEmptyBoard, FillerBoard}
    \cup {LayLine(bg, Pos(0, 3), DIRS[1], w, gap) :
             bg \in {createEmptyBoard, FillerBoard}, w \in {1, 2}, gap \in {2, ROAD_LEN}}

NoResult == [engine |-> "none", score |-> 0]

IdleHybrid ==
    [pc |-> "idle", strategy |-> "", complexity |-> Ratio(0, 1), running |-> {},
     ran |-> {}, pvsResult |-> NoResult, mctsResult |-> NoResult, final |-> NoResult]

InitHybrid ==
    /\ \E b \in HybridBoards, m \in HybridSteps :
          state = [createInitialState EXCEPT !.board = b, !.moveNumber = m]
    /\ call = NoCall
    /\ applied = 0
    /\ checked = NoCheck
    /\ search = [pc |-> "none"]
    /\ fn = NoFn
    /\ hybrid = IdleHybrid
    /\ transpositionTable = NoTable
    /\ mcts = NoMcts

\* decideMove up to the choice of the strategy
SelectStrategy ==
    /\ hybrid.pc = "idle"
    /\ \E complexity \in {estimateComplexity(state)} :
          hybrid' = [hybrid EXCEPT !.pc = "selected", !.complexity = complexity,
                        !.strategy = selectStrategy(state.moveNumber, complexity)]
    /\ UNCHANGED <<state, call, applied, checked, search, fn, transpositionTable, mcts>>

\* pvsSearchBestMove is entered: in both branches that the selector can choose
\* ('deep' is never returned by selectStrategy)
PvsStarts ==
    /\ hybrid.pc = "selected"
    /\ hybrid' = [hybrid EXCEPT !.pc = "pvs", !.running = @ \cup {"pvs"},
                     !.ran = @ \cup {"pvs"}]
    /\ UNCHANGED <<state, call, applied, checked, search, fn, transpositionTable, mcts>>

\* pvsSearchBestMove returns; with 'traditional' its result is returned
PvsReturns ==
    /\ hybrid.pc = "pvs"
    /\ \E score \in EngineScores :
          LET result == [engine |-> "pvs", score |-> score]
          IN  hybrid' = [hybrid EXCEPT
                            !.running = @ \ {"pvs"},
                            !.pvsResult = result,
                            !.pc = IF hybrid.strategy = "traditional" THEN "done"
                                   ELSE "pvsDone",
                            !.final = IF hybrid.strategy = "traditional" THEN result
                                      ELSE @]
    /\ UNCHANGED <<state, call, applied, checked, search, fn, transpositionTable, mcts>>

\* this.mctsAI.decideMove is called and awaited
MctsStarts ==
    /\ hybrid.pc = "pvsDone"
    /\ hybrid' = [hybrid EXCEPT !.pc = "mcts", !.running = @ \cup {"mcts"},
                     !.ran = @ \cup {"mcts"}]
    /\ UNCHANGED <<state, call, applied, checked, search, fn, transpositionTable, mcts>>

\* the promise resolves: final = mctsResult.score > pvsResult.score ? mctsResult : pvsResult
MctsReturns ==
    /\ hybrid.pc = "mcts"
    /\ \E score \in EngineScores :
          LET result == [engine |-> "mcts", score |-> score]
          IN  hybrid' = [hybrid EXCEPT
                            !.running = @ \ {"mcts"},
                            !.mctsResult = result,
                            !.pc = "done",
                            !.final = IF score > hybrid.pvsResult.score THEN result
                                      ELSE hybrid.pvsResult]
    /\ UNCHANGED <<state, call, applied, checked, search, fn, transpositionTable, mcts>>

NextHybrid ==
    \/ SelectStrategy
    \/ PvsStarts
    \/ PvsReturns
    \/ MctsStarts
    \/ MctsReturns

SpecHybrid == InitHybrid /\ [][NextHybrid]_vars

-----------------------------------------------------------------------------
(* hybrid_strategy.ts over a game on the full board: the stones follow from  *)
(* the plies played (getStonesToPlace), the mixed roads are any number that  *)
(* does not go down as stones are added; the board itself is not kept.       *)

\* BOARD_SIZE of types.ts
FULL_BOARD_SIZE == 19

\* the roads precomputeRoads makes on a board of side n: n * (n - 5) in each
\* of the two straight directions, (n - 5) * (n - 5) in each diagonal one
RoadCountOf(n) == 2 * n * (n - 5) + 2 * (n - 5) * (n - 5)

\* the plies of a game
MaxMoves == 32

\* the mixed roads: none, all, and the quarters between
MixedRoadCounts == {(k * RoadCountOf(FULL_BOARD_SIZE)) \div 4 : k \in 0 .. 4}

InitGame ==
    /\ state = createInitialState
    /\ call = NoCall
    /\ applied = 0
    /\ checked = NoCheck
    /\ search = [pc |-> "none"]
    /\ fn = NoFn
    /\ hybrid = [pc |-> "idle", step |-> 0, player |-> "BLACK", stones |-> 0,
                 mixedRoads |-> 0, complexity |-> Ratio(0, 1), strategy |-> ""]
    /\ transpositionTable = NoTable
    /\ mcts = NoMcts

\* decideMove on the state of the game: step = state.moveNumber,
\* complexity = estimateComplexity(state), strategy = selectStrategy(...)
GameSelectStrategy ==
    /\ hybrid.pc = "idle"
    /\ \E complexity \in {ComplexityOf(hybrid.stones, hybrid.mixedRoads,
                                       FULL_BOARD_SIZE * FULL_BOARD_SIZE,
                                       RoadCountOf(FULL_BOARD_SIZE))} :
          hybrid' = [hybrid EXCEPT !.pc = "selected", !.complexity = complexity,
                        !.strategy = selectStrategy(hybrid.step, complexity)]
    /\ UNCHANGED <<state, call, applied, checked, search, fn, transpositionTable, mcts>>

\* the move decided is applied: getStonesToPlace(moveNumber, player) stones
\* more, moveNumber + 1, the other player to move
GamePly ==
    /\ hybrid.pc = "selected"
    /\ hybrid.step < MaxMoves
    /\ \E mixed \in MixedRoadCounts :
          /\ mixed >= hybrid.mixedRoads
          /\ hybrid.stones = 0 => mixed = 0
          /\ hybrid' = [hybrid EXCEPT
                           !.pc = "idle",
                           !.step = @ + 1,
                           !.player = switchPlayer(@),
                           !.stones = @ + getStonesToPlace(hybrid.step, hybrid.player),
                           !.mixedRoads = mixed]
    /\ UNCHANGED <<state, call, applied, checked, search, fn, transpositionTable, mcts>>

NextGame ==
    \/ GameSelectStrategy
    \/ GamePly

SpecGame == InitGame /\ [][NextGame]_vars

-----------------------------------------------------------------------------
(* pvs_search.ts: the transposition table.  The Map is a sequence of         *)
(* [hash, entry] in the order of insertion; pvs stores the position it has   *)
(* searched with the depth it searched it to.                                *)

\* `${boardStr}_${state.currentPlayer}_${state.moveNumber}`
hashState(s) == <<s.board, s.currentPlayer, s.moveNumber>>

\* the flag of a stored score
TTFlagOf(score, alpha, beta) ==
    IF score <= alpha THEN "UPPER" ELSE IF score >= beta THEN "LOWER" ELSE "EXACT"

\* Map.get: the entries under the hash (none or one)
TTGet(table, hash) ==
    LET has(e) == e.hash = hash
    IN  SelectSeq(table, has)

\* Map.set: an existing key keeps its place, a new key goes last
TTSet(table, hash, entry) ==
    LET e == [hash |-> hash, entry |-> entry]
    IN  IF Len(TTGet(table, hash)) > 0
        THEN [i \in 1 .. Len(table) |-> IF table[i].hash = hash THEN e ELSE table[i]]
        ELSE Append(table, e)

\* storeTT with the entries sorted by depth ascending on overflow
storeTTShallowFirst(table, s, depth, score, alpha, beta) ==
    With(TTGet(table, hashState(s)), LAMBDA existing :
        IF Len(existing) > 0 /\ existing[1].entry.depth > depth THEN table
        ELSE With(TTSet(table, hashState(s),
                        [depth |-> depth, score |-> score,
                         flag |-> TTFlagOf(score, alpha, beta)]), LAMBDA set :
             IF Len(set) > MAX_TT_ENTRIES
             THEN Take(StableSortBy(set, [i \in 1 .. Len(set) |-> set[i].entry.depth]),
                       (MAX_TT_ENTRIES * 8) \div 10)
             ELSE set))

\* the table after storeTT(state, depth, score, alpha, beta); on overflow the
\* entries are sorted by depth descending (a stable sort) and the first
\* floor(MAX_TT_ENTRIES * 0.8) are kept
storeTT(table, s, depth, score, alpha, beta) ==
    With(TTGet(table, hashState(s)), LAMBDA existing :
        IF Len(existing) > 0 /\ existing[1].entry.depth > depth THEN table
        ELSE With(TTSet(table, hashState(s),
                        [depth |-> depth, score |-> score,
                         flag |-> TTFlagOf(score, alpha, beta)]), LAMBDA set :
             IF Len(set) > MAX_TT_ENTRIES
             THEN Take(StableSortBy(set, [i \in 1 .. Len(set) |-> -set[i].entry.depth]),
                       (MAX_TT_ENTRIES * 8) \div 10)
             ELSE set))

\* the positions pvs stores: the roots with a line of the mover only
TTStates == {LineState(mg, 0 .. 5, 0 .. 5) : mg \in LineGaps \ {0 .. 5}}

\* the depths of the nodes stored: the leaves and two levels above them
TTDepths == 0 .. 2

\* score, alpha, beta of the stores
TTScores == {<<0, -1, 1>>}

NoStore == [called |-> FALSE]

InitTT ==
    /\ state = createInitialState
    /\ call = NoCall
    /\ applied = 0
    /\ checked = NoCheck
    /\ search = [pc |-> "none"]
    /\ fn = NoFn
    /\ hybrid = NoHybrid
    /\ transpositionTable = [table |-> << >>, last |-> NoStore]
    /\ mcts = NoMcts

\* one storeTT call of pvs
StoreTT ==
    /\ \E s \in TTStates, depth \in TTDepths, w \in TTScores :
          transpositionTable' =
              [table |-> storeTT(transpositionTable.table, s, depth, w[1], w[2], w[3]),
               last |-> [called |-> TRUE, hash |-> hashState(s), depth |-> depth,
                         sizeBefore |-> Len(transpositionTable.table)]]
    /\ UNCHANGED <<state, call, applied, checked, search, fn, hybrid, mcts>>

NextTT == StoreTT

SpecTT == InitTT /\ [][NextTT]_vars

-----------------------------------------------------------------------------
(* pvs_search.ts: the transposition table across pvsSearchBestMove calls.    *)
(* The table is a variable of the module, so it lives as long as the process *)
(* does; calls is the sequence of the pvsSearchBestMove calls made so far,   *)
(* owners records for every hash the call whose storeTT wrote the entry.     *)

\* the entry probeTT returns, hit FALSE for null
probeTT(table, s, depth, alpha, beta) ==
    With(TTGet(table, hashState(s)), LAMBDA found :
        IF Len(found) = 0 \/ found[1].entry.depth < depth THEN [hit |-> FALSE]
        ELSE With(found[1].entry, LAMBDA entry :
            IF entry.flag = "EXACT" THEN [hit |-> TRUE, entry |-> entry]
            ELSE IF entry.flag = "LOWER" /\ entry.score >= beta
                THEN [hit |-> TRUE, entry |-> entry]
            ELSE IF entry.flag = "UPPER" /\ entry.score <= alpha
                THEN [hit |-> TRUE, entry |-> entry]
            ELSE [hit |-> FALSE]))

\* the pvsSearchBestMove calls of one process
MaxSearches == 2

\* rootPlayer and weights of a call
SearchCalls ==
    {[rootPlayer |-> "BLACK", weights |-> defaultWeights],
     [rootPlayer |-> "WHITE", weights |-> defaultWeights]}
    \cup {[rootPlayer |-> "BLACK", weights |-> w] : w \in WeightInputs}

\* the positions the calls search
ReuseStates == {LineState(mg, 0 .. 5, 0 .. 5) : mg \in {{5}, {1, 4}}}

\* the depths pvs probes and stores with (depth > 0)
ReuseDepths == 1 .. 2

NoProbe == [called |-> FALSE]

InitTTReuse ==
    /\ state = createInitialState
    /\ call = NoCall
    /\ applied = 0
    /\ checked = NoCheck
    /\ search = [pc |-> "none"]
    /\ fn = NoFn
    /\ hybrid = NoHybrid
    /\ transpositionTable = [table |-> << >>, calls |-> << >>, owners |-> << >>,
                             probe |-> NoProbe]
    /\ mcts = NoMcts

\* pvsSearchBestMove begins: lastSearchNodeCount = 0 and resetKillers(); the
\* table is left as it is
SearchBegins ==
    /\ Len(transpositionTable.calls) < MaxSearches
    /\ \E c \in SearchCalls :
          transpositionTable' = [transpositionTable EXCEPT !.calls = Append(@, c),
                                                           !.probe = NoProbe]
    /\ UNCHANGED <<state, call, applied, checked, search, fn, hybrid, mcts>>

\* a node of the running call ends with storeTT(state, depth, bestScore, ...);
\* the score is the one the call's root player and weights give the position
PvsStores ==
    /\ Len(transpositionTable.calls) > 0
    /\ \E s \in ReuseStates, depth \in ReuseDepths :
          LET id == Len(transpositionTable.calls)
              c == transpositionTable.calls[id]
              score == evaluateState(s, c.rootPlayer, c.weights)
              before == TTGet(transpositionTable.table, hashState(s))
              written == Len(before) = 0 \/ before[1].entry.depth <= depth
          IN  transpositionTable' =
                  [transpositionTable EXCEPT
                      !.table = storeTT(@, s, depth, score, -Infinity, Infinity),
                      !.owners = IF written THEN TTSet(@, hashState(s), id) ELSE @,
                      !.probe = NoProbe]
    /\ UNCHANGED <<state, call, applied, checked, search, fn, hybrid, mcts>>

\* a node of the running call begins with probeTT(state, depth, alpha, beta)
\* and returns ttEntry.score on a hit
PvsProbes ==
    /\ Len(transpositionTable.calls) > 0
    /\ \E s \in ReuseStates, depth \in ReuseDepths :
          LET got == probeTT(transpositionTable.table, s, depth, -Infinity, Infinity)
              owner == TTGet(transpositionTable.owners, hashState(s))
          IN  transpositionTable' =
                  [transpositionTable EXCEPT
                      !.probe = [called |-> TRUE, hit |-> got.hit,
                                 by |-> Len(transpositionTable.calls),
                                 owner |-> IF got.hit THEN owner[1].entry ELSE 0,
                                 score |-> IF got.hit THEN got.entry.score ELSE 0]]
    /\ UNCHANGED <<state, call, applied, checked, search, fn, hybrid, mcts>>

NextTTReuse ==
    \/ SearchBegins
    \/ PvsStores
    \/ PvsProbes

SpecTTReuse == InitTTReuse /\ [][NextTTReuse]_vars

-----------------------------------------------------------------------------
(* mcts_ai_engine.ts: the engine.  The numbers of the source are floats;     *)
(* here they are exact fractions.  The nodes are objects shared between the  *)
(* tables and the children maps: heap is the sequence of the nodes ever      *)
(* created, a table and a children map are sequences of [key, id] in the     *)
(* order of insertion, id the index of the node in heap.                     *)

\* MCTSConfig: the simulations of one decideMove, the plies of one rollout,
\* the children of one expansion; 80, 8 and 12 in App.tsx
simulationCount == 2
simulationSteps == 1
expandNodes == 2

\* the cap of the two tables together; 50,000 by default
maxTranspositionSize == 4

\* the decideMove calls of one process
MaxRuns == 3

rolloutTopK == 6
ucbConstant == Ratio(7, 5)
dirichletEpsilon == Ratio(1, 4)
minWinRateThreshold == Ratio(3, 10)

RECURSIVE GCD(_, _)
GCD(a, b) == IF b = 0 THEN a ELSE GCD(b, a % b)

\* the fraction num / den in lowest terms, den > 0
Lowest(num, den) ==
    With(GCD(Abs(num), den), LAMBDA g : Ratio(num \div g, den \div g))

RPlus(a, b) ==
    With(GCD(a.den, b.den), LAMBDA g :
        Lowest(a.num * (b.den \div g) + b.num * (a.den \div g), (a.den \div g) * b.den))

RMinus(a, b) == RPlus(a, Ratio(-b.num, b.den))

RTimes(a, b) ==
    With(<<Lowest(a.num, b.den), Lowest(b.num, a.den)>>, LAMBDA c :
        Ratio(c[1].num * c[2].num, c[1].den * c[2].den))

\* a < b for fractions at least 0, by their integer parts and the remainders
\* (no product is formed)
RECURSIVE RLessPos(_, _)
RLessPos(a, b) ==
    IF a.num \div a.den # b.num \div b.den THEN a.num \div a.den < b.num \div b.den
    ELSE IF b.num % b.den = 0 THEN FALSE
    ELSE IF a.num % a.den = 0 THEN TRUE
    ELSE RLessPos(Ratio(b.den, b.num % b.den), Ratio(a.den, a.num % a.den))

RLess(a, b) ==
    IF a.num < 0 /\ b.num >= 0 THEN TRUE
    ELSE IF a.num >= 0 /\ b.num < 0 THEN FALSE
    ELSE IF a.num < 0 THEN RLessPos(Ratio(-b.num, b.den), Ratio(-a.num, a.den))
    ELSE RLessPos(a, b)

\* DummyResNetEvaluator.evaluate: the uniform oracle
evaluate(s) == [policy |-> [idx \in 0 .. 360 |-> Ratio(1, 361)], value |-> 0]

\* Math.random: a draw is its value and the weight -log(value) in units of
\* -log(1/4), which is all dirichletNoise uses of it
RandomDraws ==
    {[value |-> Ratio(1, 4), weight |-> 1], [value |-> Ratio(1, 16), weight |-> 2]}

\* the sequences of draws of a seed, repeated without end
RandomStreams ==
    {<<d>> : d \in RandomDraws} \cup {s \in RandomDraws \X RandomDraws : s[1] # s[2]}

\* the k-th draw after pos draws
DrawAt(stream, pos, k) == stream[((pos + k - 1) % Len(stream)) + 1]

\* `${player}:${rows}`
encodeStateKey(s, player) == <<player, s.board>>

\* `${a.x},${a.y},${b.x},${b.y}`
encodeMoveKey(move) ==
    <<move.positions[1].x, move.positions[1].y, move.positions[2].x, move.positions[2].y>>

decodeMoveKey(key, player) == MoveOf(player, <<Pos(key[1], key[2]), Pos(key[3], key[4])>>)

\* Map.get: the id under the key, 0 for none
TableGet(table, key) ==
    IF \E i \in 1 .. Len(table) : table[i].key = key
    THEN table[CHOOSE i \in 1 .. Len(table) : table[i].key = key].id
    ELSE 0

\* Map.set: an existing key keeps its place, a new key goes last
TableSet(table, key, id) ==
    IF TableGet(table, key) # 0
    THEN [i \in 1 .. Len(table) |->
             IF table[i].key = key THEN [key |-> key, id |-> id] ELSE table[i]]
    ELSE Append(table, [key |-> key, id |-> id])

RECURSIVE TableSetAll(_, _, _)
TableSetAll(table, entries, i) ==
    IF i > Len(entries) THEN table
    ELSE With(TableSet(table, entries[i].key, entries[i].id), LAMBDA t :
             TableSetAll(t, entries, i + 1))

\* the engine and the module state before the first call
\* (rootPlayer is null); stream is the seed of Math.random, rpos the draws made
EmptyMcts(stream) ==
    [heap |-> << >>, selfTable |-> << >>, oppTable |-> << >>, visitClock |-> 0,
     rootPlayer |-> "NONE", stream |-> stream, rpos |-> 0]

\* the node of the state and the engine after the call: m is the engine,
\* id the node
getOrCreateNode(m, s, player, isSelf) ==
    LET key == encodeStateKey(s, player)
        id == TableGet(IF isSelf THEN m.selfTable ELSE m.oppTable, key)
        clock == m.visitClock + 1
        node == [state |-> s, player |-> player, visits |-> 0, wins |-> 0,
                 prior |-> Ratio(1, 1), children |-> << >>, isExpanded |-> FALSE,
                 lastVisitId |-> clock]
        nid == Len(m.heap) + 1
    IN  IF id = 0
        THEN [m |-> [m EXCEPT !.heap = Append(@, node),
                              !.visitClock = clock,
                              !.selfTable = IF isSelf THEN TableSet(@, key, nid) ELSE @,
                              !.oppTable = IF isSelf THEN @ ELSE TableSet(@, key, nid)],
              id |-> nid]
        ELSE [m |-> [m EXCEPT !.heap[id].lastVisitId = clock, !.visitClock = clock],
              id |-> id]

\* collectAndSort: the entries of one table by lastVisitId descending
collectAndSort(m, table) ==
    StableSortBy(table, [i \in 1 .. Len(table) |-> -m.heap[table[i].id].lastVisitId])

\* the entries of the self table, sorted, and after them those of the
\* opponent table, sorted
PruneEntries(m) == collectAndSort(m, m.selfTable) \o collectAndSort(m, m.oppTable)

\* the engine after pruneTranspositionTables
pruneTranspositionTables(m) ==
    LET keep == (maxTranspositionSize * 9) \div 10
        isSelfNode(e) == m.heap[e.id].player = m.rootPlayer
        isOppNode(e) == ~isSelfNode(e)
    IN  IF Len(m.selfTable) + Len(m.oppTable) <= maxTranspositionSize THEN m
        ELSE With(Take(PruneEntries(m), keep), LAMBDA kept :
                 [m EXCEPT !.selfTable = TableSetAll(<< >>, SelectSeq(kept, isSelfNode), 1),
                           !.oppTable = TableSetAll(<< >>, SelectSeq(kept, isOppNode), 1)])

RECURSIVE SumSeq(_, _)
SumSeq(s, i) == IF i > Len(s) THEN 0 ELSE s[i] + SumSeq(s, i + 1)

RECURSIVE RSumSeq(_, _)
RSumSeq(s, i) == IF i > Len(s) THEN Ratio(0, 1) ELSE RPlus(s[i], RSumSeq(s, i + 1))

RECURSIVE LCMSeq(_, _)
LCMSeq(s, i) ==
    IF i > Len(s) THEN 1
    ELSE With(LCMSeq(s, i + 1), LAMBDA l : (s[i] \div GCD(s[i], l)) * l)

\* dirichletNoise(size) on the draws after pos: samples -log(draw) / alpha
\* over their sum
dirichletNoise(stream, pos, size) ==
    With([k \in 1 .. size |-> DrawAt(stream, pos, k).weight], LAMBDA w :
        With(SumSeq(w, 1), LAMBDA total : [k \in 1 .. size |-> Lowest(w[k], total)]))

\* Array.prototype.sort with the comparator b.p - a.p (descending, stable):
\* ps[i] is the number of s[i]
SortByRatioDesc(s, ps) ==
    LET ranks(v) ==
            [i \in 1 .. Len(v) |->
                Cardinality({j \in 1 .. Len(v) :
                    RLess(v[i], v[j]) \/ (v[j] = v[i] /\ j < i)})]
        sorted(v, rk) == [p \in 1 .. Len(v) |-> v[CHOOSE i \in 1 .. Len(v) : rk[i] = p - 1]]
    IN  CHOOSE r \in {sorted(v, rk) : v \in {s}, rk \in {ranks(w) : w \in {ps}}} : TRUE

\* scoredPoints of expandNode, sorted: the candidates with the policy of the
\* oracle, mixed with the noise when the node's player is the root player
ScoredPoints(m, node) ==
    LET candidates == generateRZOPCandidates(node.state)
        policy == evaluate(node.state).policy
        isRoot == m.rootPlayer = node.player
        base(pos) == policy[pos.y * BOARD_SIZE + pos.x]
        mixed(cs, noise) ==
            [k \in 1 .. Len(cs) |->
                [pos |-> cs[k],
                 p |-> IF isRoot
                       THEN RPlus(RTimes(RMinus(Ratio(1, 1), dirichletEpsilon), base(cs[k])),
                                  RTimes(dirichletEpsilon, noise[k]))
                       ELSE base(cs[k])]]
    IN  With(candidates, LAMBDA cs :
          With(mixed(cs, IF isRoot THEN dirichletNoise(m.stream, m.rpos, Len(cs)) ELSE << >>),
               LAMBDA sp :
            [points |-> SortByRatioDesc(sp, [k \in 1 .. Len(sp) |-> sp[k].p]),
             draws |-> IF isRoot THEN Len(cs) ELSE 0]))

\* the double loop of expandNode over the pairs of topPoints from the k-th
\* pair on: every pair is applied and its node looked up; the loop ends at
\* expandNodes children.  nums[i] is topPoints[i].p over the common
\* denominator of the points, raw the product of two of them.
RECURSIVE ExpandPairs(_, _, _, _, _, _, _)
ExpandPairs(m, node, top, nums, pairs, k, children) ==
    IF k > Len(pairs) \/ Len(children) >= expandNodes
    THEN [m |-> m, children |-> children, threw |-> FALSE]
    ELSE LET i == pairs[k][1]
             j == pairs[k][2]
             move == MoveOf(node.player, <<top[i].pos, top[j].pos>>)
             nextPlayer == switchPlayer(node.player)
         IN  With(applyMoveWithWinner(node.state, move), LAMBDA r :
               IF r.threw
               THEN [m |-> m, children |-> children, threw |-> TRUE]
               ELSE With(getOrCreateNode(m, r.next, nextPlayer, m.rootPlayer = nextPlayer),
                         LAMBDA g :
                      With(g.m.heap[g.id], LAMBDA child :
                        IF /\ child.visits > 5
                           /\ RLess(Lowest(child.wins, child.visits), minWinRateThreshold)
                        THEN ExpandPairs(g.m, node, top, nums, pairs, k + 1, children)
                        ELSE ExpandPairs(g.m, node, top, nums, pairs, k + 1,
                                 Append(children,
                                     [key |-> encodeMoveKey(move), id |-> g.id,
                                      raw |-> nums[i] * nums[j]])))))

\* the fallback child of expandNode: the first two points
FallbackChild(m, node, top, children) ==
    IF Len(children) = 0 /\ Len(top) >= 2
    THEN LET move == MoveOf(node.player, <<top[1].pos, top[2].pos>>)
             nextPlayer == switchPlayer(node.player)
         IN  With(applyMoveWithWinner(node.state, move), LAMBDA r :
               IF r.threw THEN [m |-> m, children |-> children, threw |-> TRUE]
               ELSE With(getOrCreateNode(m, r.next, nextPlayer, m.rootPlayer = nextPlayer),
                         LAMBDA g :
                      [m |-> g.m,
                       children |-> <<[key |-> encodeMoveKey(move), id |-> g.id, raw |-> 1]>>,
                       threw |-> FALSE]))
    ELSE [m |-> m, children |-> children, threw |-> FALSE]

RECURSIVE SetPriors(_, _, _, _)
SetPriors(heap, children, sumPrior, i) ==
    IF i > Len(children) THEN heap
    ELSE SetPriors([heap EXCEPT ![children[i].id].prior = Lowest(children[i].raw, sumPrior)],
                   children, sumPrior, i + 1)

\* the engine after expandNode(node), or threw when applyMoveWithWinner has
\* thrown.  child.prior = p_i * p_j / sumPrior is computed on the numerators
\* of the points over their common denominator.
expandNode(m, id) ==
    LET node == m.heap[id]
        finish(e) ==
            IF e.threw THEN [m |-> e.m, threw |-> TRUE]
            ELSE With(SumSeq([c \in 1 .. Len(e.children) |-> e.children[c].raw], 1),
                      LAMBDA sumPrior :
                   [m |-> [e.m EXCEPT
                             !.heap = [SetPriors(@, e.children, sumPrior, 1) EXCEPT
                                          ![id].children =
                                              [c \in 1 .. Len(e.children) |->
                                                  [key |-> e.children[c].key,
                                                   id |-> e.children[c].id]],
                                          ![id].isExpanded = TRUE]],
                    threw |-> FALSE])
    IN  With(ScoredPoints(m, node), LAMBDA sp :
          With(Take(sp.points, Min(Len(sp.points), expandNodes * 3)), LAMBDA top :
            With(LCMSeq([k \in 1 .. Len(top) |-> top[k].p.den], 1), LAMBDA den :
              With(ExpandPairs([m EXCEPT !.rpos = @ + sp.draws], node, top,
                               [k \in 1 .. Len(top) |-> top[k].p.num * (den \div top[k].p.den)],
                               IndexPairs(Len(top)), 1, << >>),
                   LAMBDA e :
                IF e.threw THEN finish(e)
                ELSE With(FallbackChild(e.m, node, top, e.children), finish)))))

\* the value of a finished game for the root player
WinnerValue(m, winner) ==
    IF winner = "DRAW" THEN 0 ELSE IF winner = m.rootPlayer THEN 1 ELSE -1

projectValueToRoot(m, value, perspective) ==
    IF perspective = m.rootPlayer THEN value ELSE -value

\* draw(list, sum) with r = Math.random() * sum: the index of the item drawn
RECURSIVE DrawIndex(_, _, _)
DrawIndex(scores, r, i) ==
    IF i > Len(scores) THEN Len(scores)
    ELSE With(RMinus(r, scores[i]), LAMBDA rest :
             IF rest.num <= 0 THEN i ELSE DrawIndex(scores, rest, i + 1))

\* the rollout of simulate from its step-th ply: the value, the draws used
RECURSIVE Rollout(_, _, _, _, _, _)
Rollout(m, rolloutState, currentPlayer, step, latestValue, rpos) ==
    IF step >= simulationSteps
    THEN [value |-> latestValue, rpos |-> rpos, threw |-> FALSE]
    ELSE
    LET ev == evaluate(rolloutState)
        latest == projectValueToRoot(m, ev.value, currentPlayer)
        stop == [value |-> latest, rpos |-> rpos, threw |-> FALSE]
        score(pos) == ev.policy[pos.y * BOARD_SIZE + pos.x]
        scoresOf(list) == [k \in 1 .. Len(list) |-> score(list[k])]
        drawn(list, k) ==
            list[DrawIndex(scoresOf(list),
                           RTimes(DrawAt(m.stream, rpos, k).value, RSumSeq(scoresOf(list), 1)),
                           1)]
    IN  IF rolloutState.winner # NoWinner THEN stop
        ELSE With(generateRZOPCandidates(rolloutState), LAMBDA candidates :
          IF Len(candidates) < 2 THEN stop
          ELSE
          With(Take(SortByRatioDesc(candidates, scoresOf(candidates)),
                    Min(Max(2, rolloutTopK), Len(candidates))), LAMBDA pool :
            With(drawn(pool, 1), LAMBDA first :
              LET differs(p) == p # first
                  remaining == SelectSeq(pool, differs)
                  secondPool == IF Len(remaining) > 0 THEN remaining ELSE pool
              IN  With(drawn(secondPool, 2), LAMBDA second :
                    With(applyMoveWithWinner(rolloutState,
                                             MoveOf(currentPlayer, <<first, second>>)),
                         LAMBDA r :
                      IF r.threw THEN [value |-> 0, rpos |-> rpos + 2, threw |-> TRUE]
                      ELSE IF r.next.winner # NoWinner
                      THEN [value |-> WinnerValue(m, r.next.winner), rpos |-> rpos + 2,
                            threw |-> FALSE]
                      ELSE Rollout(m, r.next, switchPlayer(currentPlayer), step + 1,
                                   latest, rpos + 2))))))

\* simulate(node): the value for the root player, the draws used
simulate(m, id) ==
    LET node == m.heap[id]
    IN  IF node.state.winner # NoWinner
        THEN [value |-> WinnerValue(m, node.state.winner), rpos |-> m.rpos, threw |-> FALSE]
        ELSE Rollout(m, node.state, node.player, 0, 0, m.rpos)

\* the integer part of the square root of n
RECURSIVE ISqrtIn(_, _, _)
ISqrtIn(n, lo, hi) ==
    IF lo >= hi THEN lo
    ELSE IF ((lo + hi + 1) \div 2) * ((lo + hi + 1) \div 2) <= n
         THEN ISqrtIn(n, (lo + hi + 1) \div 2, hi)
         ELSE ISqrtIn(n, lo, ((lo + hi + 1) \div 2) - 1)

ISqrt(n) == ISqrtIn(n, 0, Min(n, 46340))

\* x < (P + sqrt(D)) / Q for a fraction x >= 0 and D not a square, by the
\* continued fractions of the two numbers (no product of large numbers)
RECURSIVE LessThanSurd(_, _, _, _)
LessThanSurd(x, P, Q, D) ==
    LET b == IF Q > 0 THEN (P + ISqrt(D)) \div Q ELSE (-P - ISqrt(D) - 1) \div (-Q)
        a == x.num \div x.den
        P1 == b * Q - P
        Q1 == IF Q > 0 THEN (D - P1 * P1) \div Q ELSE -((D - P1 * P1) \div (-Q))
    IN  IF a # b THEN a < b
        ELSE IF x.num % x.den = 0 THEN TRUE
        ELSE ~LessThanSurd(Ratio(x.den, x.num % x.den), P1, Q1, D)

\* x < (e / f) * sqrt(n) and x > (e / f) * sqrt(n) for a fraction x >= 0
LessThanRoot(x, e, f, n) ==
    IF ISqrt(n) * ISqrt(n) = n THEN RLess(x, Lowest(e * ISqrt(n), f))
    ELSE With(f \div GCD(f, e * e * n), LAMBDA t :
             LessThanSurd(x, 0, f * t, e * e * n * t * t))

GreaterThanRoot(x, e, f, n) ==
    IF ISqrt(n) * ISqrt(n) = n THEN RLess(Lowest(e * ISqrt(n), f), x)
    ELSE With(f \div GCD(f, e * e * n), LAMBDA t :
             ~LessThanSurd(x, 0, f * t, e * e * n * t * t))

\* score = q + u of selectChild for the child c of a node visited n times is
\* greater than that of the child d: q is wins / visits, u is
\* ucbConstant * prior * sqrt(n) / (1 + visits)
ScoreGreater(c, d, n) ==
    LET q(x) == IF x.visits > 0 THEN Lowest(x.wins, x.visits) ELSE Ratio(0, 1)
        a(x) == Ratio(x.prior.num, x.prior.den * (1 + x.visits))
        \* 1 / (a(x) - a(y)) against ucbConstant * sqrt(n) / (q(y) - q(x))
        inverse(r) == Ratio(r.den, r.num)
        slope(r) == Lowest(ucbConstant.num * r.den, ucbConstant.den * r.num)
    IN  IF ~RLess(q(c), q(d)) /\ ~RLess(a(c), a(d))
        THEN RLess(q(d), q(c)) \/ RLess(a(d), a(c))
        ELSE IF ~RLess(q(d), q(c)) /\ ~RLess(a(d), a(c)) THEN FALSE
        ELSE IF RLess(q(d), q(c))
        THEN With(slope(RMinus(q(c), q(d))), LAMBDA w :
                 GreaterThanRoot(inverse(RMinus(a(d), a(c))), w.num, w.den, n))
        ELSE With(slope(RMinus(q(d), q(c))), LAMBDA w :
                 LessThanRoot(inverse(RMinus(a(c), a(d))), w.num, w.den, n))

\* selectChild(node): the first child of the greatest score
selectChild(m, id) ==
    LET node == m.heap[id]
        n == Max(1, node.visits)
        child(k) == m.heap[node.children[k].id]
        best == CHOOSE k \in 1 .. Len(node.children) :
                    /\ \A j \in 1 .. Len(node.children) : ~ScoreGreater(child(j), child(k), n)
                    /\ \A j \in 1 .. (k - 1) : ScoreGreater(child(k), child(j), n)
    IN  node.children[best].id

\* the path of runSimulation from the node down to a node that is not
\* expanded or has no children
RECURSIVE Descend(_, _, _)
Descend(m, id, path) ==
    IF m.heap[id].isExpanded /\ Len(m.heap[id].children) > 0
    THEN With(selectChild(m, id), LAMBDA next : Descend(m, next, Append(path, next)))
    ELSE path

RECURSIVE Backpropagate(_, _, _, _)
Backpropagate(m, path, value, i) ==
    IF i > Len(path) THEN m
    ELSE Backpropagate([m EXCEPT !.heap[path[i]].visits = @ + 1,
                                 !.heap[path[i]].wins = @ + value,
                                 !.heap[path[i]].lastVisitId = m.visitClock + 1,
                                 !.visitClock = @ + 1],
                       path, value, i + 1)

\* the engine after runSimulation(root), or threw
runSimulation(m, rootId) ==
    With(Descend(m, rootId, <<rootId>>), LAMBDA path :
      With(IF m.heap[path[Len(path)]].isExpanded THEN [m |-> m, threw |-> FALSE]
           ELSE expandNode(m, path[Len(path)]), LAMBDA e :
        IF e.threw THEN e
        ELSE With(simulate(e.m, path[Len(path)]), LAMBDA v :
               IF v.threw THEN [m |-> [e.m EXCEPT !.rpos = v.rpos], threw |-> TRUE]
               ELSE [m |-> Backpropagate([e.m EXCEPT !.rpos = v.rpos], path, v.value, 1),
                     threw |-> FALSE])))

\* the choice of decideMove among the children of the root: most visits,
\* then the greater win rate, the first of equals
RECURSIVE BestChild(_, _, _, _)
BestChild(m, children, i, best) ==
    IF i > Len(children) THEN best
    ELSE LET child == m.heap[children[i].id]
             winRate == IF child.visits > 0 THEN Lowest(child.wins, child.visits)
                        ELSE Ratio(0, 1)
         IN  IF \/ child.visits > best.visits
                \/ (child.visits = best.visits /\ best.found /\ RLess(best.score, winRate))
             THEN BestChild(m, children, i + 1,
                      [found |-> TRUE, key |-> children[i].key, visits |-> child.visits,
                       score |-> winRate])
             ELSE BestChild(m, children, i + 1, best)

-----------------------------------------------------------------------------
(* The MCTS specification: decideMove calls of one engine in one process,   *)
(* one after the other, each on a position of the list below with the side  *)
(* to move as player; Math.random is seeded anew at every call.  A           *)
(* simulation is one step.                                                   *)

\* a position in which the mover wins with the two cells in the middle of
\* row 3, the first two candidates of generateRZOPCandidates
WinAtHandState ==
    StateOf({Pos(0, 3), Pos(1, 3), Pos(4, 3), Pos(5, 3)},
            {Pos(0, 0), Pos(2, 0), Pos(4, 0), Pos(1, 5), Pos(3, 5)})

\* the positions decideMove is called on: the initial position, the position
\* after Black's first stone, a position of the search specification with
\* Black to move, a position with a win at hand
MctsRoots ==
    {createInitialState,
     StateOf({}, {Pos(2, 3)}),
     LineState({0, 4, 5}, {1, 4}, 0 .. 5),
     WinAtHandState}

NoPrune == [happened |-> FALSE]

\* what one entry of a table is for the pruning
EntryOf(m, table, name) ==
    {[id |-> table[i].id, key |-> table[i].key, table |-> name,
      lastVisitId |-> m.heap[table[i].id].lastVisitId] : i \in 1 .. Len(table)}

TableEntries(m) == EntryOf(m, m.selfTable, "self") \cup EntryOf(m, m.oppTable, "opp")

IdleMcts(engine, runs, results, prune) ==
    [pc |-> "idle", engine |-> engine, runs |-> runs, results |-> results, prune |-> prune]

InitMcts ==
    /\ state = createInitialState
    /\ call = NoCall
    /\ applied = 0
    /\ checked = NoCheck
    /\ search = [pc |-> "none"]
    /\ fn = NoFn
    /\ hybrid = NoHybrid
    /\ transpositionTable = NoTable
    /\ \E stream \in RandomStreams :
          mcts = IdleMcts(EmptyMcts(stream), 0, << >>, NoPrune)

\* decideMove(root, player) up to the loop of the simulations
DecideMove ==
    /\ mcts.pc = "idle"
    /\ mcts.runs < MaxRuns
    /\ \E root \in MctsRoots :
         \E g \in {getOrCreateNode([mcts.engine EXCEPT !.rootPlayer = root.currentPlayer,
                                                       !.rpos = 0],
                                   root, root.currentPlayer, TRUE)} :
           \E pruned \in {pruneTranspositionTables(g.m)} :
             mcts' = [pc |-> "simulate", engine |-> pruned, runs |-> mcts.runs + 1,
                      results |-> mcts.results,
                      prune |-> IF Len(g.m.selfTable) + Len(g.m.oppTable) <= maxTranspositionSize
                                THEN NoPrune
                                ELSE [happened |-> TRUE, before |-> TableEntries(g.m),
                                      after |-> TableEntries(pruned)],
                      root |-> root, player |-> root.currentPlayer, rootId |-> g.id,
                      simulations |-> 0]
    /\ UNCHANGED <<state, call, applied, checked, search, fn, hybrid, transpositionTable>>

\* the outcome of a decideMove call that throws
ThrownDecision(root, player) == [root |-> root, player |-> player, threw |-> TRUE]

\* one runSimulation of the loop
RunSimulation ==
    /\ mcts.pc = "simulate"
    /\ mcts.simulations < simulationCount
    /\ \E r \in {runSimulation(mcts.engine, mcts.rootId)} :
         mcts' = IF r.threw
                 THEN IdleMcts(r.m, mcts.runs,
                               Append(mcts.results, ThrownDecision(mcts.root, mcts.player)),
                               mcts.prune)
                 ELSE [mcts EXCEPT !.engine = r.m, !.simulations = @ + 1]
    /\ UNCHANGED <<state, call, applied, checked, search, fn, hybrid, transpositionTable>>

\* the end of decideMove: the decision, or 'MCTS failed to generate a move'
ReturnDecision ==
    /\ mcts.pc = "simulate"
    /\ mcts.simulations = simulationCount
    /\ \E best \in {BestChild(mcts.engine, mcts.engine.heap[mcts.rootId].children, 1,
                              [found |-> FALSE, key |-> << >>, visits |-> -1,
                               score |-> Ratio(0, 1)])} :
         mcts' = IdleMcts(mcts.engine, mcts.runs,
                     Append(mcts.results,
                         IF best.found
                         THEN [root |-> mcts.root, player |-> mcts.player, threw |-> FALSE,
                               move |-> decodeMoveKey(best.key, mcts.player),
                               score |-> best.score,
                               visits |-> mcts.engine.heap[mcts.rootId].visits]
                         ELSE ThrownDecision(mcts.root, mcts.player)),
                     mcts.prune)
    /\ UNCHANGED <<state, call, applied, checked, search, fn, hybrid, transpositionTable>>

NextMcts ==
    \/ DecideMove
    \/ RunSimulation
    \/ ReturnDecision

SpecMcts == InitMcts /\ [][NextMcts]_vars

-----------------------------------------------------------------------------
(* Claims about the rules (SpecRules) *)

StonesOn(board) ==
    Cardinality({c \in AllCells : board[c.y][c.x] # 0})

\* the legality of a move as the specification states it
IsLegalMove(s, m) ==
    /\ m.player = s.currentPlayer
    /\ Len(m.positions) = (IF s.moveNumber = 0 THEN 1 ELSE 2)
    /\ \A i \in 1 .. Len(m.positions) :
          /\ m.positions[i] \in AllCells
          /\ s.board[m.positions[i].y][m.positions[i].x] = 0
    /\ \A i, j \in 1 .. Len(m.positions) : i # j => m.positions[i] # m.positions[j]

\* a move that fails one of the checks of applyMoveWithWinner
IsRejectedMove(s, m) ==
    \/ m.player # s.currentPlayer
    \/ Len(m.positions) # (IF s.moveNumber = 0 THEN 1 ELSE 2)
    \/ \E i \in 1 .. Len(m.positions) :
          \/ m.positions[i] \notin AllCells
          \/ s.board[m.positions[i].y][m.positions[i].x] # 0

\* C1: applyMoveWithWinner(s, m) returns a successor if and only if m is by the
\* player to move, has getStonesToPlace(s.moveNumber) positions, and all of them
\* are on the board, pairwise distinct and empty in s.
C1_ApplyIffLegal ==
    call.kind = "apply" => (~call.threw <=> IsLegalMove(call.arg, call.move))

\* C2: no move is applied to a state whose winner is set: the call fails.
C2_NoMoveAfterWinner ==
    (call.kind = "apply" /\ call.arg.winner # NoWinner) => call.threw

\* C4: the initial state is empty with BLACK to move at moveNumber 0 and no
\* winner; after n successful calls moveNumber = n and BLACK is to move iff n is
\* even; the ply applied at moveNumber 0 places one stone, every later ply two.
C4_PlyCounts ==
    /\ applied = 0 =>
          /\ StonesOn(state.board) = 0
          /\ state.currentPlayer = "BLACK"
          /\ state.winner = NoWinner
    /\ state.moveNumber = applied
    /\ state.currentPlayer = "BLACK" <=> applied % 2 = 0
    /\ (call.kind = "apply" /\ ~call.threw) =>
          StonesOn(state.board) - StonesOn(call.arg.board)
              = (IF call.arg.moveNumber = 0 THEN 1 ELSE 2)

\* C5: applyMoveWithWinner leaves the state it is given as it was, whether it
\* returns or throws, and a move that fails a check is answered by an error,
\* the caller's state staying as it was.
C5_ArgumentUnchanged ==
    call.kind = "apply" =>
        /\ call.argAfter = call.arg
        /\ IsRejectedMove(call.arg, call.move) =>
              (call.threw /\ call.error # "" /\ state = call.arg)

\* a two-stone move was applied: the successor's board differs from the argument's
C5_Witness ==
    /\ call.kind = "apply"
    /\ ~call.threw
    /\ Len(call.move.positions) = 2
    /\ state.board # call.arg.board
    /\ call.argAfter.board = call.arg.board

-----------------------------------------------------------------------------
(* Claims about checkWinner (SpecWinner) *)

\* the six cells from (x, y) in direction d are on the board and hold v
SixFrom(board, x, y, d, v) ==
    \A k \in 0 .. 5 :
        /\ x + k * d[1] \in Coords
        /\ y + k * d[2] \in Coords
        /\ board[y + k * d[2]][x + k * d[1]] = v

LineDirs == { <<1, 0>>, <<0, 1>>, <<1, 1>>, <<1, -1>> }

HasSix(board, v) ==
    \E x \in Coords, y \in Coords, d \in LineDirs : SixFrom(board, x, y, d, v)

IsFull(board) == \A c \in AllCells : board[c.y][c.x] # 0

\* row-major rank of the first cell from which six cells of colour v run
\* rightwards, downwards or along a diagonal (only used when HasSix)
FirstSixRank(board, v) ==
    LET ranks == {y * BOARD_SIZE + x : <<x, y>> \in
                    {c \in Coords \X Coords :
                        \E d \in LineDirs : SixFrom(board, c[1], c[2], d, v)}}
    IN  CHOOSE r \in ranks : \A q \in ranks : r <= q

-----------------------------------------------------------------------------
(* Claims about pvsSearchBestMove (SpecPvs).  While the search runs and     *)
(* when it has returned (pc = "done"), state is the root state.             *)

\* the single-point mates of a player: the empty cells of the roads that hold
\* five of its stones and no stone of the other player
MateCells(s, player) ==
    {c \in AllCells :
        /\ s.board[c.y][c.x] = 0
        /\ \E r \in RoadIds :
              /\ InSeq(c, ALL_ROADS[r])
              /\ CountValue(RoadValues(s, ALL_ROADS[r]), CellValue(player)) = 5
              /\ CountValue(RoadValues(s, ALL_ROADS[r]), CellValue(switchPlayer(player))) = 0}

\* the roads on which a player wins with two stones: four of its stones, two
\* empty cells
TwoStoneWinRoads(s, player) ==
    {r \in RoadIds :
        /\ CountValue(RoadValues(s, ALL_ROADS[r]), CellValue(player)) = 4
        /\ CountValue(RoadValues(s, ALL_ROADS[r]), CellValue(switchPlayer(player))) = 0}

Mover == state.currentPlayer

Returned == search.pc = "done"

\* the winner of the state the returned move leads to (none if it is refused)
SuccessorWinner == applyMoveWithWinner(state, search.decision.move).next.winner

ReturnedMoveHolds(c) == InSeq(c, search.decision.move.positions)

\* C6: in every non-terminal state reachable by legal play, the initial state
\* included, pvsSearchBestMove returns (it does not throw) and the move it
\* returns is legal in that state.
C6_ReturnsLegalMove ==
    /\ search.pc # "threw"
    /\ Returned => IsLegalMove(state, search.decision.move)

\* C7: when the mover has a single-point mate, the returned move holds one of
\* its mate cells and the successor state is won by the mover.
C7_MateIsPlayed ==
    MateCells(state, Mover) # {} =>
        /\ search.pc # "threw"
        /\ Returned =>
              /\ \E c \in MateCells(state, Mover) : ReturnedMoveHolds(c)
              /\ SuccessorWinner = Mover

\* the mover mates although the opponent has a mate of its own
C7_Witness ==
    /\ Returned
    /\ MateCells(state, Mover) # {}
    /\ MateCells(state, switchPlayer(Mover)) # {}
    /\ SuccessorWinner = Mover

\* C8: when the mover has no single-point mate and the opponent has exactly
\* one mate cell, the returned move holds that cell, whatever other threats
\* the opponent has, and the successor has no opponent single-point mate.
C8_SingleMateIsBlocked ==
    (/\ Returned
     /\ MateCells(state, Mover) = {}
     /\ Cardinality(MateCells(state, switchPlayer(Mover))) = 1)
    => /\ \A c \in MateCells(state, switchPlayer(Mover)) : ReturnedMoveHolds(c)
       /\ MateCells(applyMoveWithWinner(state, search.decision.move).next,
                    switchPlayer(Mover)) = {}

\* C9: when the mover has a single-point mate and the returned move plays it,
\* the score of the decision is at least 999,000, whatever maxDepth >= 1.
C9_MateScore ==
    (/\ Returned
     /\ MateCells(state, Mover) # {}
     /\ SuccessorWinner = Mover)
    => search.decision.score >= 999000

\* C10: when the mover, placing two stones, has a road with four of its stones
\* and two empty cells, has no single-point mate, and the opponent has no
\* threat, the returned pair wins.  Stated for the searches in which every
\* score was fixed by the deadline or by a won state.
C10_TwoStoneWinIsPlayed ==
    (/\ Returned
     /\ search.exact
     /\ state.moveNumber >= 1
     /\ TwoStoneWinRoads(state, Mover) # {}
     /\ MateCells(state, Mover) = {}
     /\ MateCells(state, switchPlayer(Mover)) = {}
     /\ TwoStoneWinRoads(state, switchPlayer(Mover)) = {})
    => SuccessorWinner = Mover

-----------------------------------------------------------------------------
(* Claims about the functions (SpecFns) *)

Called(name) == fn.name = name

\* the state with one stone of `player` put on the empty cell c
WithStone(s, player, c) ==
    [s EXCEPT !.board = [y \in Coords |-> [x \in Coords |->
                            IF Pos(x, y) = c THEN CellValue(player) ELSE s.board[y][x]]]]

\* a threat of level 0 or 1: a single-point mate or a two-stone win
HasImmediateWin(s, player) ==
    MateCells(s, player) # {} \/ TwoStoneWinRoads(s, player) # {}

\* C11: in a state with moveNumber >= 1 where the opponent has one live four
\* and no other threat, buildSmartBlockForOpponentLive4 does not fail and
\* returns two stones; the move holds exactly one of the two empty cells of the
\* four if a single stone on one of them leaves the opponent no threat of level
\* 0 or 1, and both of them otherwise.
C11_SmartBlock ==
    (/\ Called("buildSmartBlockForOpponentLive4")
     /\ state.moveNumber >= 1
     /\ Cardinality(TwoStoneWinRoads(state, switchPlayer(fn.rootPlayer))) = 1
     /\ MateCells(state, switchPlayer(fn.rootPlayer)) = {})
    => LET ends == SeqToSet(fn.threat.positions)
           held == {e \in ends : InSeq(e, fn.move.positions)}
           safe == {e \in ends :
                      ~HasImmediateWin(WithStone(state, fn.rootPlayer, e),
                                       switchPlayer(fn.rootPlayer))}
       IN  /\ ~fn.threw
           /\ Len(fn.move.positions) = 2
           /\ IF safe # {} THEN Cardinality(held) = 1 ELSE held = ends

\* the urgent-block cells: the empty cells of the windows of six that hold no
\* stone of the player to move and five stones of the other player, or four of
\* them and two empty cells
UrgentBlockCells(s) ==
    LET mover == CellValue(s.currentPlayer)
        other == CellValue(switchPlayer(s.currentPlayer))
        urgentWindow(r) ==
            LET cells == RoadValues(s, ALL_ROADS[r])
            IN  /\ CountValue(cells, mover) = 0
                /\ \/ CountValue(cells, other) >= 5 /\ CountValue(cells, 0) >= 1
                   \/ CountValue(cells, other) >= 4 /\ CountValue(cells, 0) >= 2
    IN  {c \in AllCells :
            /\ s.board[c.y][c.x] = 0
            /\ \E r \in RoadIds : urgentWindow(r) /\ InSeq(c, ALL_ROADS[r])}

\* C12: the list generateRZOPCandidates returns holds every urgent-block cell,
\* whatever the filters and the per-line quotas of the other candidates remove.
C12_UrgentCellsAreCandidates ==
    Called("generateRZOPCandidates")
    => \A c \in UrgentBlockCells(state) : InSeq(c, fn.result)

\* an urgent cell that the filter of the other candidates refuses is returned
C12_Witness ==
    /\ Called("generateRZOPCandidates")
    /\ \E c \in UrgentBlockCells(state) :
          /\ isPureLineExtension(state, c)
          /\ InSeq(c, fn.result)

SixLines ==
    LET line(x, y, dx, dy) == {Pos(x + k * dx, y + k * dy) : k \in 0 .. 5}
    IN  {l \in {line(x, y, d[1], d[2]) :
                  x \in Coords, y \in Coords,
                  d \in {<<1, 0>>, <<0, 1>>, <<1, 1>>, <<1, -1>>}} :
            l \subseteq AllCells}

\* C14: the road table holds every set of six consecutive collinear cells of
\* the board exactly once and nothing else: every road has six cells of the
\* board, no two roads cover the same cells, the ids are distinct, and there
\* are 2 * n * (n - 5) + 2 * (n - 5) * (n - 5) roads on a board of side n
\* (924 for n = 19).
C14_RoadTable ==
    Called("getAllRoads")
    => LET roads == fn.result
           cellsOf(i) == SeqToSet(roads[i].cells)
       IN  /\ \A i \in 1 .. Len(roads) :
                 /\ Len(roads[i].cells) = 6
                 /\ Cardinality(cellsOf(i)) = 6
                 /\ cellsOf(i) \in SixLines
           /\ \A l \in SixLines : Cardinality({i \in 1 .. Len(roads) : cellsOf(i) = l}) = 1
           /\ \A i, j \in 1 .. Len(roads) : i # j => roads[i].id # roads[j].id
           /\ Len(roads) = 2 * BOARD_SIZE * (BOARD_SIZE - 5)
                           + 2 * (BOARD_SIZE - 5) * (BOARD_SIZE - 5)

\* the table is read and holds a row, a column and a diagonal through one cell
C14_Witness ==
    /\ Called("getAllRoads")
    /\ \E c \in AllCells :
          Cardinality({i \in 1 .. Len(fn.result) : InSeq(c, fn.result[i].cells)}) >= 3

\* C15: for every board and weight vector, evaluateRoads for Black is the
\* negation of evaluateRoads for White, also when one colour fills more than
\* one road and when both colours fill a road.
C15_RoadsSignSymmetry ==
    Called("evaluateRoads") => fn.black = -fn.white

-----------------------------------------------------------------------------
(* Claims about the hybrid selector (SpecHybrid) *)

\* C16: the selector maps the move number m and the complexity c as its table
\* says: PVS alone when m <= 10, both engines when 10 < m <= 30 and c > 0.6,
\* PVS alone otherwise; the two engines are never in flight together; when
\* both have run, the MCTS decision is returned iff its score is strictly
\* higher than the PVS score, else the PVS decision.
C16_SelectorTable ==
    LET m == state.moveNumber
        both == m > 10 /\ m <= 30 /\ 5 * hybrid.complexity.num > 3 * hybrid.complexity.den
    IN  /\ Cardinality(hybrid.running) <= 1
        /\ hybrid.pc \notin {"none", "idle"}
              => hybrid.strategy = IF both THEN "hybrid" ELSE "traditional"
        /\ hybrid.pc = "done"
              => /\ hybrid.ran = IF both THEN {"pvs", "mcts"} ELSE {"pvs"}
                 /\ hybrid.final =
                       IF both /\ hybrid.mctsResult.score > hybrid.pvsResult.score
                       THEN hybrid.mctsResult ELSE hybrid.pvsResult
                 /\ hybrid.final.engine # "none"

\* both engines have run and the MCTS decision, of the higher score, is returned
C16_Witness ==
    /\ hybrid.pc = "done"
    /\ hybrid.ran = {"pvs", "mcts"}
    /\ hybrid.mctsResult.score > hybrid.pvsResult.score
    /\ hybrid.final.engine = "mcts"

-----------------------------------------------------------------------------
(* Claims about the deadline of the search (SpecPvs) *)

\* C17: when the clock passes the deadline while an iteration is in progress,
\* whatever its depth d >= 1, nothing of that iteration is returned: the move,
\* the score and the depth kept for the decision stay those of the deepest
\* iteration that searched all its root moves, and the decision returned by
\* the loop is made of them.
C17_AbortedIterationIsDropped ==
    /\ [][(search.pc = "iterEnd" /\ search.failed)
            => /\ search'.bestMove = search.bestMove
               /\ search'.bestScore = search.bestScore
               /\ search'.searchedDepth = search.searchedDepth]_vars
    /\ []((search.pc = "done" /\ search.decision.mode = "normal")
            => /\ search.decision.move = search.bestMove
               /\ search.decision.score = search.bestScore
               /\ search.decision.depth = search.searchedDepth)

-----------------------------------------------------------------------------
(* Claims about the transposition table (SpecTT) *)

\* C18: after every storeTT call the table holds at most MAX_TT_ENTRIES
\* entries; a store does not replace an entry of the same key with a strictly
\* greater depth; a store that pushes the size above the cap leaves exactly
\* floor(0.8 * cap) entries, and no entry it removes is deeper than one it keeps.
C18_TableCap ==
    /\ [](transpositionTable # NoTable
            => Len(transpositionTable.table) <= MAX_TT_ENTRIES)
    /\ [][LET before == transpositionTable.table
              after == transpositionTable'.table
              c == transpositionTable'.last
              isNew == \A i \in 1 .. Len(before) : before[i].hash # c.hash
              stored == SeqToSet(before)
                        \cup {[hash |-> c.hash,
                               entry |-> [depth |-> c.depth, score |-> 0, flag |-> "EXACT"]]}
          IN  /\ \A i \in 1 .. Len(before) :
                    (before[i].hash = c.hash /\ before[i].entry.depth > c.depth)
                        => after = before
              /\ (isNew /\ Len(before) = MAX_TT_ENTRIES)
                    => /\ Len(after) = (MAX_TT_ENTRIES * 8) \div 10
                       /\ SeqToSet(after) \subseteq stored
                       /\ \A r \in stored \ SeqToSet(after) : \A k \in SeqToSet(after) :
                             r.entry.depth <= k.entry.depth]_vars

\* a store has pushed a full table above the cap and the table has been cut,
\* with a deeper entry kept and a shallower one removed
C18_Witness ==
    /\ transpositionTable # NoTable
    /\ transpositionTable.last.called
    /\ transpositionTable.last.sizeBefore = MAX_TT_ENTRIES
    /\ Len(transpositionTable.table) = (MAX_TT_ENTRIES * 8) \div 10
    /\ \E i \in 1 .. Len(transpositionTable.table) :
          transpositionTable.table[i].entry.depth > 0


-----------------------------------------------------------------------------
(* Claims about the MCTS engine (SpecMcts) *)

\* the entries the last pruning has put back, and those it has dropped
KeptEntries == mcts.prune.after

EvictedEntries ==
    {e \in mcts.prune.before : \A k \in mcts.prune.after : k.id # e.id}

\* C19: when decideMove prunes the tables (more than maxTranspositionSize
\* nodes in the two together), floor(0.9 * maxTranspositionSize) nodes are
\* kept, and no evicted node has a larger lastVisitId than a kept node,
\* whichever table each was in.
C19_PruneKeepsMostRecent ==
    (mcts.pc # "none" /\ mcts.prune.happened) =>
        /\ Cardinality(KeptEntries) = (maxTranspositionSize * 9) \div 10
        /\ \A e \in EvictedEntries : \A k \in KeptEntries :
               e.lastVisitId <= k.lastVisitId

\* C20: two decideMove calls on the same state and player, the random draws
\* being the same, return the same move and the same visit count, also when
\* the second is made after the first in the same process.
C20_RunsAgree ==
    mcts.pc # "none" =>
        \A i \in 1 .. Len(mcts.results) : \A j \in 1 .. Len(mcts.results) :
            (/\ mcts.results[i].root = mcts.results[j].root
             /\ mcts.results[i].player = mcts.results[j].player
             /\ ~mcts.results[i].threw
             /\ ~mcts.results[j].threw) =>
                /\ mcts.results[i].move = mcts.results[j].move
                /\ mcts.results[i].visits = mcts.results[j].visits

\* C29: a node whose state has a winner is never expanded: after any number
\* of simulations it has no children, so selection never descends into a
\* state made by placing stones after the game was won.
C29_WonNodeHasNoChildren ==
    mcts.pc # "none" =>
        \A i \in 1 .. Len(mcts.engine.heap) :
            mcts.engine.heap[i].state.winner # NoWinner =>
                Len(mcts.engine.heap[i].children) = 0

-----------------------------------------------------------------------------
(* Claims about the self-play of the optimizer (SpecPvs) *)

\* selfPlay: const dynamicDepth = steps < 10 ? 2 : 3
dynamicDepth(steps) == IF steps < 10 THEN 2 ELSE 3

\* selfPlay: state = applyMoveWithWinner(state, moveDecision.move), with no
\* check of the move before it and no try around it
SelfPlayPly == applyMoveWithWinner(state, search.decision.move)

\* the search selfPlay makes on the first ply of a match: the initial state
\* and maxDepth dynamicDepth(0)
FirstPlySearch ==
    /\ state = createInitialState
    /\ search.pc \in {"threw", "done"}
    /\ search.maxDepth = dynamicDepth(0)

\* C21: every self-play match proceeds ply by ply with a legal move and no
\* match aborts with an error, the first ply at moveNumber 0 included: the
\* search of the first ply returns and applyMoveWithWinner accepts its move.
C21_FirstPlyIsApplied ==
    FirstPlySearch => (search.pc = "done" /\ ~SelfPlayPly.threw)

-----------------------------------------------------------------------------
(* Claims about the transposition table across calls (SpecTTReuse) *)

\* the last probe returned an entry that another call has stored
ProbeReturnsOlderEntry ==
    /\ transpositionTable.probe.called
    /\ transpositionTable.probe.hit
    /\ transpositionTable.probe.owner # transpositionTable.probe.by

\* C22: an entry stored during one pvsSearchBestMove call is never returned
\* by probeTT during a later call made for a different root player or with
\* different weights.
C22_NoEntryAcrossSearches ==
    ProbeReturnsOlderEntry =>
        transpositionTable.calls[transpositionTable.probe.owner]
            = transpositionTable.calls[transpositionTable.probe.by]


-----------------------------------------------------------------------------
(* Claims about the scores of the root loop (SpecPvs) *)

\* the root loop scores sorted[i] before the deadline and the successor of
\* the move is won by p
ScoresMoveWonBy(p) ==
    /\ search.pc \in {"move", "research"}
    /\ search'.pc = "after"
    /\ search.clock # "expired"
    /\ applyMoveWithWinner(state, search.sorted[search.i]).next.winner = p

\* C23: the score a parent node gives a move whose successor is won by the
\* player who made the move is at least +1,000,000 from that player's point
\* of view, and at most -1,000,000 when the other player has won; stated for
\* the root loop, whose mover is the root player.
C23_WonSuccessorScore ==
    [][/\ ScoresMoveWonBy(Mover) => search'.score >= 1000000
       /\ ScoresMoveWonBy(switchPlayer(Mover)) => search'.score <= -1000000]_vars

\* the iteration d >= 2 has searched its root moves and its best score lies
\* on or outside the window around the score of the iteration before
IterationFailsWindow ==
    /\ search.pc = "iterEnd"
    /\ search.d >= 2
    /\ ~search.failed
    /\ \/ search.iterBestScore <= Plus(search.bestScore, -ASPIRATION_WINDOW)
       \/ search.iterBestScore >= Plus(search.bestScore, ASPIRATION_WINDOW)

\* C24: an iteration d >= 2 starts with the window (prev - 50,000,
\* prev + 50,000), and an iteration whose best score falls on or outside that
\* window is run again with the full window before its move and score are
\* accepted: at its end d stays and the best move and score are not replaced.
C24_AspirationResearch ==
    [][/\ (search.pc = "iter" /\ search'.pc = "move" /\ search.d >= 2) =>
              /\ search'.alpha = Plus(search.bestScore, -ASPIRATION_WINDOW)
              /\ search'.beta = Plus(search.bestScore, ASPIRATION_WINDOW)
       /\ IterationFailsWindow =>
              /\ search'.d = search.d
              /\ search'.searchedDepth # search.d
              /\ search'.alpha = -Infinity /\ search'.beta = Infinity]_vars


-----------------------------------------------------------------------------
(* Claims about the threats (SpecVcdt) *)

\* the unordered set of the positions of a threat
ThreatCells(t) == SeqToSet(t.positions)

\* the threats of a list with the given isWinning and one of the levels
ThreatsAt(threats, isWinning, levels) ==
    {i \in 1 .. Len(threats) :
        threats[i].isWinning = isWinning /\ threats[i].threatLevel \in levels}

\* C25: detectVCDT returns no two winning threats with the same unordered
\* set of positions.
C25_NoDuplicateWinningThreat ==
    fn.name = "detectVCDT" =>
        \A i, j \in ThreatsAt(fn.result, TRUE, {0, 1}) :
            i # j => ThreatCells(fn.result[i]) # ThreatCells(fn.result[j])

\* detectVCDT has a threat of the kind on the cells of threat i
SameCellsAt(threats, i, isWinning, level) ==
    \E j \in ThreatsAt(threats, isWinning, {level}) :
        ThreatCells(threats[j]) = ThreatCells(threats[i])

\* the opponent of the root player has a live four and findVcdtRootMove
\* answers it before the Smart Defense branch
Live4IsAnsweredEarly ==
    (/\ fn.name = "findVcdtRootMove"
     /\ ThreatsAt(detectVCDT(state, switchPlayer(fn.rootPlayer)), FALSE, {2}) # {})
    => /\ ~fn.threw
       /\ fn.found
       /\ fn.reason \in {"own_win", "block_opp_double_win"}

\* C27 (as stated): detectVCDT emits a level-2 live four on two cells if and
\* only if it emits a level-1 winning pair on the same cells; hence with a
\* live four of the opponent findVcdtRootMove returns own_win or
\* block_opp_double_win.
C27_Live4IffWinningPair ==
    /\ fn.name = "detectVCDT" =>
          /\ \A i \in ThreatsAt(fn.result, FALSE, {2}) : SameCellsAt(fn.result, i, TRUE, 1)
          /\ \A i \in ThreatsAt(fn.result, TRUE, {1}) : SameCellsAt(fn.result, i, FALSE, 2)
    /\ Live4IsAnsweredEarly

\* C27 (amended): every level-2 live four comes with a level-1 winning pair
\* on the same cells (a level-1 pair of two single-point wins has no live
\* four); hence with a live four of the opponent findVcdtRootMove returns
\* own_win or block_opp_double_win.
C27_Live4HasWinningPair ==
    /\ fn.name = "detectVCDT" =>
          \A i \in ThreatsAt(fn.result, FALSE, {2}) : SameCellsAt(fn.result, i, TRUE, 1)
    /\ Live4IsAnsweredEarly

C27_Witness ==
    /\ fn.name = "findVcdtRootMove"
    /\ ThreatsAt(detectVCDT(state, switchPlayer(fn.rootPlayer)), FALSE, {2}) # {}
    /\ fn.reason = "block_opp_double_win"

\* the winning threats (level 0 or 1) of the mover
WinningThreats ==
    LET threats == detectVCDT(state, Mover)
    IN  {threats[i] : i \in ThreatsAt(threats, TRUE, {0, 1})}

\* the move applied covers every position of a winning threat
CoversWinningThreat ==
    \E t \in WinningThreats : ThreatCells(t) \subseteq SeqToSet(fn.move.positions)

\* a legal two-stone move of the mover whose successor the mover has won
HasWinningPair ==
    \E p \in AllCells, q \in AllCells :
        /\ IsLegalMove(state, MoveOf(Mover, <<p, q>>))
        /\ applyMoveWithWinner(state, MoveOf(Mover, <<p, q>>)).next.winner = Mover

\* C30: in a state without a winner in which the mover places two stones,
\* the mover has a legal move with a won successor if and only if detectVCDT
\* has a winning threat of the mover, and a legal move that covers a winning
\* threat gives a won successor.
C30_WinningThreatIffWinningMove ==
    /\ (fn.name = "applyMoveWithWinner" /\ ~fn.threw /\ fn.winner = Mover)
           => WinningThreats # {}
    /\ (fn.name = "applyMoveWithWinner" /\ ~fn.threw /\ CoversWinningThreat)
           => fn.winner = Mover
    /\ (fn.name = "detectVCDT" /\ fn.player = Mover
        /\ ThreatsAt(fn.result, TRUE, {0, 1}) # {}) => HasWinningPair

C30_Witness ==
    /\ fn.name = "applyMoveWithWinner"
    /\ ~fn.threw
    /\ fn.winner = Mover
    /\ \E t \in WinningThreats : t.threatLevel = 1 /\ ThreatCells(t) = SeqToSet(fn.move.positions)

-----------------------------------------------------------------------------
(* Claims about the candidates (SpecFns) *)

\* the cell is one of findUrgentThreatBlocks
IsUrgent(p) == InSeq(p, findUrgentThreatBlocks(state))

\* C26: in a state with a stone on the board the list of
\* generateRZOPCandidates has every urgent cell before every other cell, and
\* within each group the Manhattan distance to the centre never decreases,
\* the fallback to the relevance zone included.
C26_CandidatesAreSorted ==
    (fn.name = "generateRZOPCandidates" /\ StonesOn(state.board) >= 1) =>
        \A i \in 1 .. Len(fn.result) - 1 :
            /\ IsUrgent(fn.result[i + 1]) => IsUrgent(fn.result[i])
            /\ IsUrgent(fn.result[i]) = IsUrgent(fn.result[i + 1])
                   => CenterDist2(fn.result[i]) <= CenterDist2(fn.result[i + 1])


-----------------------------------------------------------------------------
(* Claims about the strategy during a game (SpecGame) *)

\* C28: in a game played by the rules, while moveNumber <= 30 the board holds
\* at most 59 stones and estimateComplexity is at most 0.6; hence
\* selectStrategy never returns 'hybrid' and the MCTS engine is never invoked.
C28_NeverHybrid ==
    /\ hybrid.step <= 30 => hybrid.stones <= 59
    /\ hybrid.pc = "selected" =>
          /\ hybrid.step <= 30 => ~MoreThanTenths(hybrid.complexity, 6)
          /\ hybrid.strategy = "traditional"

C28_Witness ==
    /\ hybrid.pc = "selected"
    /\ hybrid.step = 30
    /\ hybrid.stones = 59
    /\ hybrid.mixedRoads = RoadCountOf(FULL_BOARD_SIZE)
    /\ hybrid.strategy = "traditional"

=============================================================================
